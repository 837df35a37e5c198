------------------------------- MODULE MCInspect -------------------------------
(***************************************************************************)
(* An instance of Inspect for TLC: a star and a planet, in words of two    *)
(* bits, and murmur3 of a few shapes.                                      *)
(***************************************************************************)
EXTENDS Inspect, TLC

Row == [dominion |-> 1, owner |-> <<"a", 0>>, management |-> <<"zero", 0>>,
        spawn |-> <<"zero", 0>>, transfer |-> <<"zero", 0>>, rift |-> 0,
        life |-> 0, suite |-> 0, encryption_key |-> "none", auth_key |-> "none",
        has_sponsor |-> FALSE, sponsor |-> 0,
        is_escape_requested |-> FALSE, escape_requested_to |-> 0]

Star == [Row EXCEPT !.has_sponsor = TRUE, !.sponsor = 1]

(* An escape to galaxy 0 that is accepted, keys reset to zero, and a       *)
(* planet that never changes.                                              *)
Histories ==
    3 :> <<Star,
           [Star EXCEPT !.is_escape_requested = TRUE],
           [Star EXCEPT !.sponsor = 0, !.life = 1, !.encryption_key = "zeros",
                        !.auth_key = "zeros"]>>
    @@ 9 :> <<[Row EXCEPT !.dominion = 2, !.has_sponsor = TRUE, !.sponsor = 1]>>

Flat(k) == [x \in (0..3) \X Short |-> k]

Hashings == {Flat(0), Flat((Word * Word) - 1),
             [x \in (0..3) \X Short |-> (7 * x[2] + 5 * x[1] + 3) % (Word * Word)],
             [x \in (0..3) \X Short |-> (x[2] * x[2] * 11 + x[1]) % (Word * Word)]}

Words == {<<s>> : s \in Syllable} \cup (Syllable \X Syllable)

Names == {<<w>> : w \in Words} \cup (Words \X Words)
         \cup {<< <<1, 0>>, w, <<0, 1>> >> : w \in Words}
         \cup {<< <<0, 1>>, <<1, 1>>, w, v >> : w \in Words, v \in {<<1, 0>>, <<1, 1>>}}
         \cup {<< <<1, 1>>, <<0, 1>>, <<0, 0>>, w, <<0, 1>> >> : w \in Words}
=============================================================================
