------------------------------- MODULE MCBadge -------------------------------
(***************************************************************************)
(* Labels for TLC: names of up to three words that fit at once, after        *)
(* shrinking, on two lines, or never; roles from the shortest to the longest *)
(* the band is meant for; hosts up to and past the one it was drawn for.     *)
(***************************************************************************)
EXTENDS Badge

MCGlyph == [s \in NameSizes |-> (11 * s) \div 20]

Ends(lengths) == [i \in DOMAIN lengths |-> FoldLeft(+, i - 1, SubSeq(lengths, 1, i))]
MCNames == {Ends(w) : w \in UNION {[1..n -> {3, 16, 22}] : n \in 0..3}}

MCRoles == {[other |-> FALSE, printable |-> 0, name |-> n] : n \in {5, 20}}
           \cup {[other |-> TRUE, printable |-> n, name |-> 5] : n \in {0, 20, 25}}

MCLabels == [lang : LabelLanguages, name : MCNames, role : MCRoles,
             company : {"none", "latin", "foreign"}, title : {"none", "foreign", "latin"},
             qr : {0, 29, 30}]

BadgeSpec == BadgeInit /\ [][FALSE]_label
==============================================================================
