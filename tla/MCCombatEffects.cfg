SPECIFICATION Spec
CONSTANTS
    Allies = {1, 2}
    Waves <- OneEnemy
    Bosses <- NoBoss
    Speeds <- SomeSpeeds
    WaitScale = 4
    SkillWaits = {0}
    BreakDelay = 1
    Slots = {0, 1}
    Tools = {1, 3}
    ToolTarget <- MixedTools
    ToolUses = 1
    MaxGauge = 1
    Provokers = {}
    ToolsPerTurn = 1
    HpSpeedRules = FALSE
    LostTurns = {"no", "disabled", "killed"}
    MaxActions = 2
    MaxWait = 4
INVARIANTS
    TimelineMatchesMembers
