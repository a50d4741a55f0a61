------------------------------- MODULE MCGacha -------------------------------
(* A tutorial gacha, one with a wish list and one with steps. *)
EXTENDS Gacha

card(type, id, rarity) ==
    [type |-> type, id |-> id, rarity |-> rarity, skin |-> 0, duplicate |-> 1]
cost(type, n) == [type |-> type, id |-> 200, quantity |-> n]
button(draws, limit, price, rates, wish) ==
    [draws |-> draws, limit |-> limit, cost |-> price, rates |-> rates, wish_list |-> wish,
     medals |-> 1, duplicates |-> <<>>]
gacha(buttons, steps, loops, rates, select, end) ==
    [buttons |-> buttons, steps |-> steps, loops |-> loops, rates |-> rates,
     select |-> select, wish_counts |-> <<1, 0, 0>>, start |-> 0, end |-> end, medal |-> 200,
     pickup_characters |-> {11, 12}, pickup_memorias |-> {}, duplicates |-> <<>>]

GachaOfValue == (2 :> gacha({1}, <<>>, 0, 1, 0, 9))
          @@ (5 :> gacha({2, 3}, <<>>, 0, 2, 1, 9))
          @@ (7 :> gacha({}, <<4, 5>>, 2, 3, 0, 1))

ButtonOfValue == (1 :> button(1, 0, cost(FreeGems, 0), 1, FALSE))
           @@ (2 :> button(2, 1, cost(FreeGems, 2), 1, FALSE))
           @@ (3 :> button(1, 0, cost(Item, 2), 1, FALSE))
           @@ (4 :> [button(1, 0, cost(PaidGems, 1), 3, FALSE) EXCEPT
                       !.duplicates = <<[characters |-> {}, pieces |-> 3, stones |-> 2]>>])
           @@ (5 :> button(1, 0, cost(PaidGems, 0), 3, TRUE))

\* Rates of characters with pickups, of memorias, of items and of skins.
RatesOfValue == (1 :> << [units |-> 20, cards |-> <<card(Character, 11, 1), card(Item, 126, 1)>>] >>)
          @@ (2 :> << [units |-> 13, cards |-> <<card(Character, 12, 3), card(Character, 13, 3)>>],
                      [units |-> 7, cards |-> <<card(Memoria, 30, 2)>>] >>)
          @@ (3 :> << [units |-> 19, cards |-> <<card(Character, 11, 3), card(Skin, 40, 1)>>],
                      [units |-> 1, cards |-> <<[card(Character, 12, 3) EXCEPT !.skin = 40]>>] >>)

WishListsValue ==
    {[gacha |-> x[1], characters |-> x[2], memorias |-> <<>>, skins |-> <<>>] :
        x \in {<<5, <<11>>>>, <<5, <<13>>>>, <<5, <<11, 11>>>>, <<7, <<12>>>>}}
WalletValue == [free |-> 1, paid |-> 2]

\* TLC evaluates a definition once, but what a CONSTANT stands for at every use.
MCButtonOf == ButtonOfValue
MCGachaOf == GachaOfValue
MCRatesOf == RatesOfValue
MCWallet == WalletValue
MCWishLists == WishListsValue
=============================================================================
