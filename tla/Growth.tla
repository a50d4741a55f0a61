------------------------------- MODULE Growth -------------------------------
(***************************************************************************)
(* What a character is raised with and what a reset gives back:            *)
(* experience, the level limit, rarity and the three grow boards.          *)
(*                                                                         *)
(* The effect of a panel is added to a field of the character, or to a     *)
(* rate all characters of the role share, when it is bought; nothing       *)
(* recomputes it.  A reset walks the same panels backwards, so the two     *)
(* have to agree about which panels a page and its bits stand for.  Skills *)
(* and skins are one flag each and are left out.  Bits are sets of panel   *)
(* numbers.                                                                *)
(***************************************************************************)
EXTENDS Integers, Sequences, SequencesExt, FiniteSets, FiniteSetsExt

CONSTANTS
    Raised,          \* characters
    RoleOf,          \* the role of each
    BoardPages,      \* the boards of each: sequences of pages, sequences of panels
                     \* (a character without a neo board has no page of it)
    LevelExp,        \* the experience at which each level begins
    FirstLimit,      \* initial_character_level_limit
    LimitReleases,   \* what each level_limit_release adds, in order
    FirstRarity, LastRarity,
    NeoPages,        \* growboard_neo_max_page of each rarity
    NeoLevel,        \* required_character_level_for_neo
    BoardMaxPage,    \* growboard_max_page of the status
    ExpValue,        \* experience items -> the experience each gives
    ExpOrder,        \* experience items as a reset goes through them, the largest first
    ColeRate,        \* character_enhancement_cole_per_exp_rate, in hundredths
    ResetLevel,      \* the level from which a reset costs an item
    QuestExp,        \* character_exp of the quest that is fought and skipped
    Stock,           \* items at the beginning
    MaxSkips,        \* bound: how often a skip repeats the quest
    MaxEarned,       \* bound: experience gained from quests
    MaxResets        \* bound: resets

Base == "base"
Ex == "ex"
Neo == "neo"
Boards == {Base, Ex, Neo}
ExpItems == DOMAIN ExpValue
Goods == ExpItems \union {"cole", "panel item", "piece", "release item", "reset item"}
Roles == {RoleOf[c] : c \in Raised}

\* A panel adds to a stat, to the rate of the role, or to the level limit.
Panel == [effect: {"stat", "role rate", "level limit"}, value: Nat, cole: Nat, items: Nat]

ASSUME GrowthAssumption ==
    /\ IsFiniteSet(Raised) /\ IsFiniteSet(ExpItems)
    /\ ExpItems \intersect {"cole", "panel item", "piece", "release item", "reset item"} = {}
    /\ \A c \in Raised, b \in Boards :
         /\ BoardPages[c][b] \in Seq(Seq(Panel))
         /\ \A p \in DOMAIN BoardPages[c][b] : BoardPages[c][b][p] # << >>
    /\ \A c \in Raised : BoardPages[c][Base] # << >> /\ BoardPages[c][Ex] # << >>
    /\ LevelExp \in Seq(Nat)
    /\ \A k, l \in DOMAIN LevelExp : k < l => LevelExp[k] < LevelExp[l]
    /\ FirstLimit \in Nat \ {0} /\ LimitReleases \in Seq(Nat)
    /\ FirstRarity \in Nat /\ LastRarity \in Nat /\ FirstRarity <= LastRarity
    /\ QuestExp \in Nat /\ ColeRate \in Nat /\ Stock \in [Goods -> Nat] /\ MaxSkips \in Nat
    /\ \A e \in ExpItems : ExpValue[e] \in Nat \ {0} /\ (ExpValue[e] * ColeRate) % 100 = 0
    /\ ExpOrder \in Seq(ExpItems) /\ Range(ExpOrder) = ExpItems /\ IsInjective(ExpOrder)
    /\ \A i, j \in DOMAIN ExpOrder : i < j => ExpValue[ExpOrder[i]] >= ExpValue[ExpOrder[j]]

VARIABLES
    chars,     \* the characters' rows
    rates,     \* growboard_role_rates
    goods,     \* items, pieces and cole
    earned,    \* history: experience gained from quests
    skipped,   \* history: the part of it that came from skipped quests
    resets     \* history: resets so far
growthVars == <<chars, rates, goods, earned, skipped, resets>>

GrowthInit ==
    /\ chars = [c \in Raised |-> [id |-> c, exp |-> 0, rarity |-> FirstRarity, increase |-> 0,
                                  limit |-> FirstLimit, stat |-> 0,
                                  page |-> [b \in Boards |-> 1], bits |-> [b \in Boards |-> {}]]]
    /\ rates = [r \in Roles |-> 0]
    /\ goods = Stock
    /\ earned = 0 /\ skipped = 0 /\ resets = 0

-----------------------------------------------------------------------------

level(ch) == Max({l \in DOMAIN LevelExp : LevelExp[l] <= ch.exp} \union {1})

level_limit(ch) == Max({ch.limit + ch.increase, FirstLimit})

\* The last experience of the highest level allowed.  The table ends one
\* level after the highest limit.
max_exp(ch) == LevelExp[level_limit(ch) + 1] - 1

HasCap(ch) == level_limit(ch) + 1 \in DOMAIN LevelExp

panels(c, b, page) == BoardPages[c][b][page]

board_complete(ch, b) ==
    /\ ch.page[b] = Len(BoardPages[ch.id][b])
    /\ ch.bits[b] = DOMAIN panels(ch.id, b, ch.page[b])

\* The panels bought of a board, by character, board, page and number: all of
\* the pages before the current one, and bits of it.
OwnedPanels(ch, b) ==
    (UNION {{<<ch.id, b, p, i>> : i \in DOMAIN panels(ch.id, b, p)} : p \in 1..(ch.page[b] - 1)})
        \union {<<ch.id, b, ch.page[b], i>> : i \in ch.bits[b]}
OwnedOf(ch, bs) == UNION {OwnedPanels(ch, b) : b \in bs}

PanelAt(x) == panels(x[1], x[2], x[3])[x[4]]
Cole(set) == SumFunction([x \in set |-> PanelAt(x).cole])
PanelItems(set) == SumFunction([x \in set |-> PanelAt(x).items])
Effect(effect, set) ==
    SumFunction([x \in set |-> IF PanelAt(x).effect = effect THEN PanelAt(x).value ELSE 0])

\* What a set of panels does to a character and to the rate of its role.
panel_effect(ch, set, sign) ==
    [ch EXCEPT !.stat = @ + sign * Effect("stat", set),
               !.limit = @ + sign * Effect("level limit", set)]
RoleRate(rate, set, sign) == rate + sign * Effect("role rate", set)

spend(cost) == [g \in Goods |-> goods[g] - (IF g \in DOMAIN cost THEN cost[g] ELSE 0)]
\* Mutant: costs are not compared with what there is.
OnCredit(cost) == TRUE

CanSpend(cost) == \A g \in DOMAIN cost : goods[g] >= cost[g]

Spent(cost) == CanSpend(cost) /\ goods' = spend(cost)

-----------------------------------------------------------------------------

ExpOf(used) == SumFunction([e \in ExpItems |-> used[e] * ExpValue[e]])

\* /character/enhance.  Experience beyond the cap is paid for and lost.
enhance(c, used) ==
    LET ch == chars[c]
        exp == ExpOf(used)
        cost == [g \in ExpItems \union {"cole"} |->
                    IF g = "cole" THEN (exp * ColeRate) \div 100 ELSE used[g]]
    IN  /\ \E e \in ExpItems : used[e] > 0
        /\ HasCap(ch) /\ ch.exp < max_exp(ch)
        /\ Spent(cost)
        /\ chars' = [chars EXCEPT ![c].exp = Min({@ + exp, max_exp(ch)})]
        /\ UNCHANGED <<rates, earned, skipped, resets>>

\* /character/rarity_enhance, a piece for every step.
rarity_enhance(c, count) ==
    /\ chars[c].rarity + count <= LastRarity
    /\ Spent([g \in {"piece"} |-> count])
    /\ chars' = [chars EXCEPT ![c].rarity = @ + count]
    /\ UNCHANGED <<rates, earned, skipped, resets>>

ReleasedBy(n) == SumFunction([i \in 1..n |-> LimitReleases[i]])

\* /character/level_limit_release: the release whose predecessors add up to
\* the increase there is.
level_limit_release(c) ==
    \E n \in DOMAIN LimitReleases :
        /\ ReleasedBy(n - 1) = chars[c].increase
        /\ Spent([g \in {"release item"} |-> 1])
        /\ chars' = [chars EXCEPT ![c].increase = @ + LimitReleases[n]]
        /\ UNCHANGED <<rates, earned, skipped, resets>>

\* The first panel of the neo board opens it.
NeoOpens(ch) ==
    ch.page[Neo] = 1 /\ 1 \notin ch.bits[Neo]
        => level(ch) >= NeoLevel /\ board_complete(ch, Base) /\ board_complete(ch, Ex)

PageLimit(ch, b) ==
    CASE b = Neo  -> Min({NeoPages[ch.rarity], Len(BoardPages[ch.id][b])})
      [] b = Ex   -> Len(BoardPages[ch.id][b])
      [] b = Base -> Min({BoardMaxPage, Len(BoardPages[ch.id][b])})

\* Moves a board to a page and bits of it, buying everything in between.
growboard(c, b, target, bits) ==
    LET ch == chars[c]
        old == OwnedPanels(ch, b)
        moved == [ch EXCEPT !.page[b] = target, !.bits[b] = bits]
        bought == OwnedPanels(moved, b) \ old
    IN  /\ b = Neo => NeoOpens(ch)
        /\ ch.page[b] <= PageLimit(ch, b)
        /\ ch.page[b] <= target /\ target <= PageLimit(ch, b)
        /\ bits \subseteq DOMAIN panels(c, b, target)
        /\ target = ch.page[b] => ch.bits[b] \subseteq bits /\ bits # ch.bits[b]
        /\ b = Ex /\ bits # {} => 1 \in bits
        /\ Spent([g \in {"cole", "panel item"} |->
                    IF g = "cole" THEN Cole(bought) ELSE PanelItems(bought)])
        /\ chars' = [chars EXCEPT ![c] = panel_effect(moved, bought, 1)]
        /\ rates' = [rates EXCEPT ![RoleOf[c]] = RoleRate(@, bought, 1)]
        /\ UNCHANGED <<earned, skipped, resets>>

growboard_bulk_release(c, b) ==
    \E target \in DOMAIN BoardPages[c][b] : \E incoming \in SUBSET DOMAIN panels(c, b, target) :
        growboard(c, b, target,
                  IF target = chars[c].page[b] THEN chars[c].bits[b] \union incoming ELSE incoming)

growboard_page_release(c, b) ==
    /\ chars[c].page[b] < Len(BoardPages[c][b])
    /\ chars[c].bits[b] = DOMAIN panels(c, b, chars[c].page[b])
    /\ growboard(c, b, chars[c].page[b] + 1, {})

-----------------------------------------------------------------------------

\* Mutant: every item is counted against all of the experience.
RefundedTwice(exp, e) == exp \div ExpValue[e]

\* The experience given back in items: what is left when the first items took
\* what they could.
Remainder(exp, items) ==
    LET left[i \in 0..Len(ExpOrder)] ==
          IF i = 0 THEN exp ELSE left[i - 1] % ExpValue[ExpOrder[i]]
    IN  left[items]

Refunded(exp, e) ==
    LET i == CHOOSE i \in DOMAIN ExpOrder : ExpOrder[i] = e
    IN  Remainder(exp, i - 1) \div ExpValue[e]

\* The panels a reset takes back: the neo board stays as it is.
ResetPanels(ch, only_level) == IF only_level THEN {} ELSE OwnedOf(ch, {Base, Ex})

\* What is given back for experience and panels.
Refund(ch, only_level) ==
    LET exp == ch.exp - Remainder(ch.exp, Len(ExpOrder))
        taken == ResetPanels(ch, only_level)
    IN  [g \in Goods |->
            CASE g \in ExpItems   -> Refunded(ch.exp, g)
              [] g = "cole"       -> (exp * ColeRate) \div 100 + Cole(taken)
              [] g = "panel item" -> PanelItems(taken)
              [] OTHER            -> 0]

TakenBack(ch, only_level) ==
    IF only_level THEN [ch EXCEPT !.exp = 0]
    ELSE [panel_effect(ch, ResetPanels(ch, FALSE), -1)
            EXCEPT !.exp = 0,
                   !.page = [@ EXCEPT ![Base] = 1, ![Ex] = 1],
                   !.bits = [@ EXCEPT ![Base] = {}, ![Ex] = {}]]

\* Mutant: a reset forgets the rate of the role.
RateStays(ch, rate, only_level) == rate

RateTakenBack(ch, rate, only_level) == RoleRate(rate, ResetPanels(ch, only_level), -1)

\* /character/enhancement_reset.  It is refused when a field would drop
\* below zero.
enhancement_reset(c, only_level) ==
    LET ch == chars[c]
        costs == level(ch) >= ResetLevel
        refund == Refund(ch, only_level)
        rate == RateTakenBack(ch, rates[RoleOf[c]], only_level)
    IN  /\ resets < MaxResets
        /\ \/ ch.exp # 0
           \/ ~only_level /\ \E b \in {Base, Ex} : ch.page[b] # 1 \/ ch.bits[b] # {}
        /\ costs => goods["reset item"] >= 1
        /\ TakenBack(ch, only_level).stat >= 0 /\ TakenBack(ch, only_level).limit >= 0
        /\ rate >= 0
        /\ goods' = [g \in Goods |-> goods[g] + refund[g]
                                      - (IF g = "reset item" /\ costs THEN 1 ELSE 0)]
        /\ chars' = [chars EXCEPT ![c] = TakenBack(ch, only_level)]
        /\ rates' = [rates EXCEPT ![RoleOf[c]] = rate]
        /\ resets' = resets + 1
        /\ UNCHANGED <<earned, skipped>>

\* Mutant: the cap is looked at before the experience is added.
ExpBelowCap(ch) == IF HasCap(ch) /\ ch.exp >= max_exp(ch) THEN ch.exp ELSE ch.exp + QuestExp

ExpUpToCap(ch) == IF HasCap(ch) THEN Min({ch.exp + QuestExp, max_exp(ch)}) ELSE ch.exp + QuestExp

\* The end of a battle, and of explorations and stories, gives experience up
\* to the cap.
character_exp(c) ==
    /\ earned < MaxEarned
    /\ chars' = [chars EXCEPT ![c].exp = ExpUpToCap(chars[c])]
    /\ earned' = earned + QuestExp
    /\ UNCHANGED <<rates, goods, skipped, resets>>

\* /quest/battle/skip gives it without looking at the cap.
quest_skip_exp(c, count) ==
    /\ earned < MaxEarned
    /\ chars' = [chars EXCEPT ![c].exp = @ + QuestExp * count]
    /\ earned' = earned + QuestExp * count
    /\ skipped' = skipped + QuestExp * count
    /\ UNCHANGED <<rates, goods, resets>>

Amounts == {u \in [ExpItems -> 0..1] : \E e \in ExpItems : u[e] > 0}

GrowthNext ==
    \E c \in Raised :
        \/ \E used \in Amounts : enhance(c, used)
        \/ \E count \in 1..(LastRarity - FirstRarity) : rarity_enhance(c, count)
        \/ level_limit_release(c)
        \/ \E b \in Boards : growboard_bulk_release(c, b)
        \/ \E b \in Boards : growboard_page_release(c, b)
        \/ \E only_level \in BOOLEAN : enhancement_reset(c, only_level)
        \/ character_exp(c)
        \/ \E count \in 1..MaxSkips : quest_skip_exp(c, count)

GrowthSpec == GrowthInit /\ [][GrowthNext]_growthVars

-----------------------------------------------------------------------------

\* Every panel of every board.
AllPanels ==
    UNION {UNION {{<<c, b, p, i>> : i \in DOMAIN panels(c, b, p)} : p \in DOMAIN BoardPages[c][b]} :
              c \in Raised, b \in Boards}

(* Pages and bits name panels there are, and nothing is spent that is not  *)
(* owned, by whatever order of purchases and resets.                       *)
GrowthTypeOK ==
    /\ \A c \in Raised : LET ch == chars[c] IN
         /\ ch.exp \in Nat /\ ch.stat \in Nat /\ ch.limit >= FirstLimit
         /\ ch.rarity \in FirstRarity..LastRarity
         /\ \A b \in Boards : ch.page[b] \in DOMAIN BoardPages[c][b] \union {1}
                              /\ OwnedPanels(ch, b) \subseteq AllPanels
    /\ rates \in [Roles -> Nat]
    /\ goods \in [Goods -> Nat]

SumBoards(c, effect) == Effect(effect, OwnedOf(chars[c], Boards))

(* A character's fields, and the rate its role shares with others, are the *)
(* sums of the panels that are bought: pages bought at once, page by page  *)
(* or panel by panel, and resets of one character of a role beside         *)
(* another, leave nothing behind (growboard, reset, panel_effect).         *)
BoardsAddUp ==
    /\ \A c \in Raised : /\ chars[c].stat = SumBoards(c, "stat")
                         /\ chars[c].limit = FirstLimit + SumBoards(c, "level limit")
    /\ \A r \in Roles :
         rates[r] = SumFunction([c \in {c \in Raised : RoleOf[c] = r} |->
                                    SumBoards(c, "role rate")])

AllOwned == UNION {OwnedOf(chars[c], Boards) : c \in Raised}
InExp == SumFunction([c \in Raised |-> chars[c].exp])

(* No round of raising and resetting gains anything: what panels cost is   *)
(* in the panels or in the bag, and the experience and cole a reset gives  *)
(* back were paid, or earned in quests (reset beside enhance, growboard).  *)
NothingGained ==
    /\ goods["panel item"] + PanelItems(AllOwned) = Stock["panel item"]
    /\ ExpOf(goods) + InExp <= ExpOf(Stock) + earned
    /\ 100 * (goods["cole"] + Cole(AllOwned)) + ColeRate * InExp
          <= 100 * Stock["cole"] + ColeRate * earned

(* A character is above its level limit by no more than quests skipped     *)
(* gave it: enhancement and battles stop at the limit, in any order with   *)
(* releases, boards and resets that move it.  A skip does not look at the  *)
(* limit, and the next battle takes the excess away (max_exp in enhance    *)
(* and character_exp, quest_skip).                                         *)
OverLimitIsSkipped ==
    \A c \in Raised : HasCap(chars[c]) => chars[c].exp <= max_exp(chars[c]) + skipped

(* Raising and resetting, by any way and in any order, adds up: effects    *)
(* are those of the panels, nothing is gained, and only skips exceed the   *)
(* level limit.                                                            *)
RaisingAddsUp == BoardsAddUp /\ NothingGained /\ OverLimitIsSkipped
=============================================================================
