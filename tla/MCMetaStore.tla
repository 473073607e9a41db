----------------------------- MODULE MCMetaStore -----------------------------
(* Two workers, two addresses that share a slot of the direct-mapped array,*)
(* one IPv6 address, a junk address and a name; windows of two keys, a     *)
(* channel of one window and a database of two rows.                       *)
EXTENDS MetaStore

MCConns == {<<"a", "b">>, <<"b", "six">>, <<"b", "zero">>}

MCSymmetry == Permutations(Workers)

MCSlotOf(ip) == IF ip = "zero" THEN 1 ELSE 0

MCFlagsOf(o) == IF o = "n" THEN 1 ELSE IF o = "a" THEN 2 ELSE 4

MCScoreOf(row) == 10 * row.count + row.last

=============================================================================
