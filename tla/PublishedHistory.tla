-------------------------- MODULE PublishedHistory --------------------------
(***************************************************************************)
(* What the build daemon promises of the branch it shares with people:     *)
(* the branch only grows; the daemon touches a knot only after a build of  *)
(* it was proven by a verification, and an ordered one only after every    *)
(* knot it rests on; it adds one only where nobody has, and from then on   *)
(* only repairs it; people add whatever they like.                         *)
(***************************************************************************)
EXTENDS Naturals, Sequences, SequencesExt

CONSTANTS
    Knots, Deps,
    Ordered,        \* the knots whose dependencies are promised first
    Foreign,        \* the patches of people
    Touches(_)      \* the knots whose files a patch writes

VARIABLES
    ledger,     \* the published history
    proven      \* the knots some build of which was proven

Init ==
    /\ ledger = <<>>
    /\ proven = {}

(* Some patch of h has brought knot k.                                     *)
Anchored(k, h) == \E p \in Range(h) : k \in Touches(p)

Before(i) == SubSeq(ledger', 1, i - 1)

Prove(k) ==
    /\ proven' = proven \cup {k}
    /\ UNCHANGED ledger

Publish ==
    /\ IsStrictPrefix(ledger, ledger')
    /\ \A i \in Len(ledger) + 1 .. Len(ledger') :
          /\ ledger'[i] \notin Foreign
          /\ \A k \in Touches(ledger'[i]) :
                /\ k \in proven
                /\ k \in Ordered => \A d \in Deps[k] : Anchored(d, Before(i))
          /\ ledger'[i] \in Knots => ~Anchored(ledger'[i], Before(i))
    /\ UNCHANGED proven

PublishForeign(f) ==
    /\ ledger' = Append(ledger, f)
    /\ UNCHANGED proven

Next ==
    \/ \E k \in Knots : Prove(k)
    \/ Publish
    \/ \E f \in Foreign : PublishForeign(f)

Spec == Init /\ [][Next]_<<ledger, proven>>
=============================================================================
