------------------------------- MODULE MCBoot -------------------------------
(***************************************************************************)
(* For TLC: eight sectors of a disk with three sectors per track and two   *)
(* heads, so that reading crosses tracks and cylinders, and all maps of up *)
(* to five answers, the end marked or not.  The map has room for three     *)
(* entries of two words.                                                   *)
(***************************************************************************)
EXTENDS Boot

AnswersUpTo(n) == UNION {[1 .. k -> BOOLEAN] : k \in 0 .. n}

NonEmpty(m) == {k \in DOMAIN m.answers : m.answers[k]}

(* An empty list has no last answer to mark. *)
AllMaps == {m \in [answers : AnswersUpTo(5), marked : BOOLEAN] :
              m.marked => m.answers # <<>>}

(* Maps that fit. *)
SmallMaps == {m \in AllMaps : Cardinality(NonEmpty(m)) <= 3}
=============================================================================
