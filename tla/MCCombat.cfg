SPECIFICATION Spec
CONSTANTS
    Allies = {1}
    Waves <- TwoWaves
    Bosses <- SecondBoss
    Speeds <- SlowAllies
    WaitScale = 6
    SkillWaits <- ShortSkills
    BreakDelay = 2
    Slots = {0}
    Tools = {1, 2}
    ToolTarget <- MixedTools
    ToolUses = 1
    MaxGauge = 1
    Provokers = {11}
    ToolsPerTurn = 2
    HpSpeedRules = FALSE
    LostTurns = {"no"}
    MaxActions = 10
    MaxWait = 12
INVARIANTS
    CombatTypeOK
    TimelineMatchesMembers
    SchedulerReturns
    CommandsAreAnswerable
