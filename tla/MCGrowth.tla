------------------------------ MODULE MCGrowth ------------------------------
(* Two characters of one role on boards of a few panels. *)
EXTENDS Growth

panel(effect, value, cole, items) ==
    [effect |-> effect, value |-> value, cole |-> cole, items |-> items]

RoleOfValue == <<1, 1>>
BoardPagesValue ==
    << [b \in Boards |->
          CASE b = Base -> << <<panel("level limit", 1, 1, 0), panel("role rate", 2, 0, 1)>>,
                              <<panel("stat", 1, 1, 1)>> >>
            [] b = Ex   -> << <<panel("stat", 2, 1, 0), panel("role rate", 1, 0, 0)>> >>
            [] b = Neo  -> << <<panel("stat", 3, 0, 0)>>, <<panel("level limit", 1, 0, 1)>> >>],
       [b \in Boards |->
          CASE b = Base -> << <<panel("role rate", 1, 1, 0)>> >>
            [] b = Ex   -> << <<panel("stat", 1, 0, 1)>> >>
            [] b = Neo  -> << >>] >>
LevelExpValue == <<0, 2, 5, 8, 11>>
LimitReleasesValue == <<1>>
NeoPagesValue == [r \in 1..2 |-> r]
ExpValueValue == [e \in {"small", "large"} |-> IF e = "small" THEN 2 ELSE 4]
StockValue == [g \in Goods |-> CASE g = "cole" -> 3 [] g = "panel item" -> 3 [] g = "large" -> 0 [] OTHER -> 1]

\* TLC evaluates a definition once, but what a CONSTANT stands for at every use.
MCBoardPages == BoardPagesValue
MCExpValue == ExpValueValue
MCExpOrder == <<"large", "small">>
MCLevelExp == LevelExpValue
MCLimitReleases == LimitReleasesValue
MCNeoPages == NeoPagesValue
MCRoleOf == RoleOfValue
MCStock == StockValue
=============================================================================
