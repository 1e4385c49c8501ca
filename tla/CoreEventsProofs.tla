-------------------------- MODULE CoreEventsProofs --------------------------
(***************************************************************************)
(* What is learned of the events of the memory engine, for any listeners   *)
(* and any number of events: the invariants of CoreEvents.                 *)
(***************************************************************************)
EXTENDS CoreEvents, FiniteSetTheorems, TLAPS

Events == 1 .. Len(memories)
OnStack == {stack[i].event : i \in DOMAIN stack}
Frames == [event : Nat, at : Nat, upto : Nat]

Typed ==
    /\ memories \in Seq(Nat)
    /\ listeners \in Seq(KnowledgeEngines \cup Outsiders)
    /\ knowledge \in [KnowledgeEngines -> Seq(Nat)]
    /\ \A k \in KnowledgeEngines : \A i \in DOMAIN knowledge[k] : knowledge[k][i] \in Events
    /\ stack \in Seq(Frames)
    /\ known \in Seq(Nat) /\ Len(known) = Len(memories)
    /\ \A e \in Events : known[e] <= Len(listeners)
    /\ during \in Seq(SUBSET Nat) /\ Len(during) = Len(memories)
    /\ cut \subseteq Events

(* How often k is among the first n of the registrations ls.               *)
Among(k, n, ls) == Cardinality({i \in 1 .. n : ls[i] = k})

(* Every broadcast under way walks along the listeners its event had; the  *)
(* ones below the top are held by a listener from outside.                 *)
Walks ==
    \A i \in DOMAIN stack :
        /\ stack[i].event \in Events \ cut
        /\ stack[i].upto = known[stack[i].event]
        /\ stack[i].at \in 1 .. stack[i].upto + 1
        /\ i < Len(stack) =>
            stack[i].at <= stack[i].upto /\ listeners[stack[i].at] \in Outsiders

(* An event stored since was stored inside a broadcast that still runs.    *)
Nested ==
    \A i \in DOMAIN stack : \A e \in Events :
        e > stack[i].event => stack[i].event \in during[e]

(* The innermost events are the youngest.                                  *)
Stacked == \A i, j \in DOMAIN stack : i < j => stack[i].event < stack[j].event

(* A broadcast has told the listeners it has passed.                       *)
Told ==
    \A i \in DOMAIN stack : \A k \in KnowledgeEngines :
        Times(stack[i].event, knowledge[k]) = Among(k, stack[i].at - 1, listeners)

(* What was learned of an event whose broadcast is over.                   *)
LearnedOf(e) ==
    \E stop \in 1 .. known[e] + 1 :
        /\ IF e \in cut
           THEN stop <= known[e] /\ listeners[stop] \in Outsiders
           ELSE stop = known[e] + 1
        /\ \A k \in KnowledgeEngines :
               Times(e, knowledge[k]) = Among(k, stop - 1, listeners)

Learned == \A e \in Events \ OnStack : LearnedOf(e)

-----------------------------------------------------------------------------
(* Counting.                                                               *)
LEMMA CountAppended ==
    ASSUME NEW S, NEW s \in Seq(S), NEW x \in S, NEW e
    PROVE  Times(e, Append(s, x)) = Times(e, s) + (IF x = e THEN 1 ELSE 0)
<1> DEFINE At == {i \in DOMAIN s : s[i] = e}
<1>1. IsFiniteSet(At)
  <2>1. IsFiniteSet(1 .. Len(s))
    BY FS_Interval
  <2>2. At \subseteq 1 .. Len(s)
    OBVIOUS
  <2> QED  BY <2>1, <2>2, FS_Subset
<1>2. {i \in DOMAIN Append(s, x) : Append(s, x)[i] = e} =
          IF x = e THEN At \cup {Len(s) + 1} ELSE At
  OBVIOUS
<1>3. Len(s) + 1 \notin At
  OBVIOUS
<1>4. Cardinality(At) \in Nat
  BY <1>1, FS_CardinalityType
<1>5. CASE x = e
  <2>1. Cardinality(At \cup {Len(s) + 1}) = Cardinality(At) + 1
    BY <1>1, <1>3, FS_AddElement
  <2> QED  BY <1>2, <1>5, <2>1 DEF Times
<1>6. CASE x # e
  <2>1. Times(e, Append(s, x)) = Cardinality(At)
    BY <1>2, <1>6 DEF Times
  <2>2. Times(e, s) = Cardinality(At)
    BY DEF Times
  <2> QED  BY <1>4, <1>6, <2>1, <2>2
<1> QED  BY <1>5, <1>6

LEMMA TimesIsANumber ==
    ASSUME NEW S, NEW s \in Seq(S), NEW e
    PROVE  Times(e, s) \in Nat
<1>1. IsFiniteSet(1 .. Len(s))
  BY FS_Interval
<1>2. {i \in DOMAIN s : s[i] = e} \in SUBSET (1 .. Len(s))
  OBVIOUS
<1> QED  BY <1>1, <1>2, FS_Subset, FS_CardinalityType DEF Times

LEMMA NeverHeard ==
    ASSUME NEW s, NEW e, \A i \in DOMAIN s : s[i] # e
    PROVE  Times(e, s) = 0
<1>1. {i \in DOMAIN s : s[i] = e} = {}
  OBVIOUS
<1> QED  BY <1>1, FS_EmptySet DEF Times

LEMMA CountNobody == ASSUME NEW k, NEW ls PROVE Among(k, 0, ls) = 0
<1>1. {i \in 1 .. 0 : ls[i] = k} = {}
  OBVIOUS
<1> QED  BY <1>1, FS_EmptySet DEF Among

LEMMA CountNext ==
    ASSUME NEW k, NEW ls, NEW n \in Nat
    PROVE  Among(k, n + 1, ls) =
               Among(k, n, ls) + (IF ls[n + 1] = k THEN 1 ELSE 0)
<1> DEFINE At == {i \in 1 .. n : ls[i] = k}
<1>1. IsFiniteSet(At)
  <2>1. IsFiniteSet(1 .. n)
    BY FS_Interval
  <2> QED  BY <2>1, FS_Subset
<1>2. {i \in 1 .. n + 1 : ls[i] = k} =
          IF ls[n + 1] = k THEN At \cup {n + 1} ELSE At
  OBVIOUS
<1>3. n + 1 \notin At
  OBVIOUS
<1>4. Cardinality(At) \in Nat
  BY <1>1, FS_CardinalityType
<1>5. CASE ls[n + 1] = k
  <2>1. Cardinality(At \cup {n + 1}) = Cardinality(At) + 1
    BY <1>1, <1>3, FS_AddElement
  <2> QED  BY <1>2, <1>5, <2>1 DEF Among
<1>6. CASE ls[n + 1] # k
  BY <1>2, <1>4, <1>6 DEF Among
<1> QED  BY <1>5, <1>6

(* Listeners added later are not counted.                                  *)
LEMMA CountsStay ==
    ASSUME NEW S, NEW ls \in Seq(S), NEW l \in S, NEW k, NEW n \in Nat, n <= Len(ls)
    PROVE  Among(k, n, Append(ls, l)) = Among(k, n, ls)
<1>1. \A i \in 1 .. n : Append(ls, l)[i] = ls[i]
  OBVIOUS
<1> QED  BY <1>1 DEF Among

-----------------------------------------------------------------------------
Inv ==
    Typed /\ Walks /\ Nested /\ Stacked /\ Told /\ Learned /\ OrderLostOnlyByNesting

(* The frame on top.                                                       *)
LEMMA TopFrame ==
    ASSUME Typed, stack # <<>>
    PROVE  /\ Len(stack) \in DOMAIN stack /\ Frame = stack[Len(stack)]
           /\ Frame \in Frames /\ Heard \in OnStack
BY DEF Typed, Frame, Heard, OnStack, Last

(* A new event goes on top of the stack; nobody has heard of it.           *)
LEMMA StoreKeepsInv ==
    ASSUME Inv, StoreEvent(stack), stack # <<>> => Walking /\ Listener \in Outsiders
    PROVE  Inv'
<1> PICK e : e = Len(memories) + 1
  OBVIOUS
<1> PICK frame : frame = [event |-> e, at |-> 1, upto |-> Len(listeners)]
  OBVIOUS
<1> USE DEF Inv
<1>1. /\ memories' = Append(memories, e) /\ stack' = Append(stack, frame)
      /\ known' = Append(known, Len(listeners)) /\ during' = Append(during, OnStack)
      /\ UNCHANGED <<listeners, knowledge, cut>>
  BY DEF StoreEvent, Broadcast, OnStack
<1>2. e \in Nat /\ Len(memories) \in Nat /\ Len(listeners) \in Nat
  BY DEF Typed
<1>3. Events' = Events \cup {e} /\ e \notin Events
  <2>1. Len(memories') = Len(memories) + 1
    BY <1>1, <1>2 DEF Typed
  <2> QED  BY <1>2, <2>1 DEF Events
<1>4. OnStack \subseteq Events /\ OnStack' = OnStack \cup {e}
  <2>1. OnStack \subseteq Events
    BY DEF OnStack, Walks
  <2>2. Len(stack') = Len(stack) + 1 /\ stack'[Len(stack')] = frame
        /\ \A i \in DOMAIN stack : stack'[i] = stack[i]
    BY <1>1, <1>2 DEF Typed, Frames
  <2>3. DOMAIN stack' = DOMAIN stack \cup {Len(stack')}
    BY <1>1, <1>2, <2>2 DEF Typed, Frames
  <2> QED  BY <2>1, <2>2, <2>3 DEF OnStack
<1>6. \A x \in Events : known'[x] = known[x] /\ during'[x] = during[x]
  <2>1. DOMAIN known = Events /\ DOMAIN during = Events
    BY <1>2 DEF Typed, Events
  <2>2. \A x \in DOMAIN known : Append(known, Len(listeners))[x] = known[x]
    <3>1. known \in Seq(Nat)
      BY DEF Typed
    <3> QED  BY <1>2, <3>1
  <2>3. \A x \in DOMAIN during : Append(during, OnStack)[x] = during[x]
    BY DEF Typed
  <2> QED  BY <1>1, <2>1, <2>2, <2>3
<1>7. known'[e] = Len(listeners) /\ during'[e] = OnStack
  BY <1>1, <1>2 DEF Typed
<1>5. Typed'
  <2>1. OnStack \in SUBSET Nat
    BY <1>4 DEF Events
  <2>2. frame \in Frames
    BY <1>2 DEF Frames
  <2>3. /\ memories' \in Seq(Nat) /\ stack' \in Seq(Frames) /\ known' \in Seq(Nat)
        /\ during' \in Seq(SUBSET Nat)
        /\ Len(known') = Len(memories') /\ Len(during') = Len(memories')
    BY <1>1, <1>2, <2>1, <2>2 DEF Typed
  <2>4. \A x \in Events' : known'[x] <= Len(listeners)
    <3>1. \A x \in Events : known[x] <= Len(listeners)
      BY DEF Typed
    <3> QED  BY <1>2, <1>3, <1>6, <1>7, <3>1
  <2>5. cut' \subseteq Events' /\ \A k \in KnowledgeEngines : \A i \in DOMAIN knowledge[k] :
                                      knowledge[k][i] \in Events'
    BY <1>1, <1>3 DEF Typed
  <2> QED  BY <1>1, <2>3, <2>4, <2>5 DEF Typed
<1>8. /\ \A i \in DOMAIN stack : stack'[i] = stack[i]
      /\ Len(stack') = Len(stack) + 1 /\ stack'[Len(stack')] = frame
      /\ DOMAIN stack' = DOMAIN stack \cup {Len(stack')}
      /\ DOMAIN stack = 1 .. Len(stack) /\ Len(stack) \in Nat
  <2>1. frame \in Frames
    BY <1>2 DEF Frames
  <2>2. stack \in Seq(Frames)
    BY DEF Typed
  <2> QED  BY <1>1, <2>1, <2>2
<1>9. stack # <<>> => /\ stack[Len(stack)].at <= stack[Len(stack)].upto
                      /\ listeners[stack[Len(stack)].at] \in Outsiders
  BY TopFrame DEF Walking, Listener
<1>10. Walks'
  <2> SUFFICES ASSUME NEW i \in DOMAIN stack'
               PROVE  /\ stack'[i].event \in Events' \ cut'
                      /\ stack'[i].upto = known'[stack'[i].event]
                      /\ stack'[i].at \in 1 .. stack'[i].upto + 1
                      /\ i < Len(stack') =>
                           /\ stack'[i].at <= stack'[i].upto
                           /\ listeners'[stack'[i].at] \in Outsiders
    BY DEF Walks
  <2>1. CASE i = Len(stack')
    <3>1. e \in Events' \ cut'
      BY <1>1, <1>3 DEF Typed
    <3>2. stack'[i].event = e /\ stack'[i].at = 1 /\ stack'[i].upto = Len(listeners)
      BY <1>8, <2>1
    <3> QED  BY <1>2, <1>7, <2>1, <3>1, <3>2
  <2>2. CASE i \in DOMAIN stack
    <3>1. i < Len(stack) \/ i = Len(stack)
      BY <1>8, <2>2
    <3>2. stack # <<>>
      BY <2>2
    <3>3. stack'[i] = stack[i]
      BY <1>8, <2>2
    <3>4. /\ stack[i].event \in Events \ cut
          /\ stack[i].upto = known[stack[i].event]
          /\ stack[i].at \in 1 .. stack[i].upto + 1
          /\ i < Len(stack) =>
               stack[i].at <= stack[i].upto /\ listeners[stack[i].at] \in Outsiders
      BY <2>2 DEF Walks
    <3>5. stack[i].event \in Events' \ cut' /\ known'[stack[i].event] = known[stack[i].event]
      BY <1>1, <1>3, <1>6, <3>4
    <3> QED  BY <1>1, <1>9, <3>1, <3>2, <3>3, <3>4, <3>5
  <2> QED  BY <1>8, <2>1, <2>2
<1>11. Nested'
  <2> SUFFICES ASSUME NEW i \in DOMAIN stack', NEW x \in Events', x > stack'[i].event
               PROVE  stack'[i].event \in during'[x]
    BY DEF Nested
  <2>1. CASE i = Len(stack')
    BY <1>2, <1>3, <1>8, <2>1 DEF Events
  <2>2. CASE i \in DOMAIN stack /\ x = e
    BY <1>7, <1>8, <2>2 DEF OnStack
  <2>3. CASE i \in DOMAIN stack /\ x \in Events
    BY <1>6, <1>8, <2>3 DEF Nested
  <2> QED  BY <1>3, <1>8, <2>1, <2>2, <2>3
<1>12. Stacked'
  <2>1. \A i \in DOMAIN stack : stack[i].event < e
    <3>1. \A x \in Events : x < e
      BY <1>2 DEF Events
    <3> QED  BY <1>4, <3>1 DEF OnStack
  <2>2. stack'[Len(stack')].event = e
    BY <1>8
  <2> QED  BY <1>8, <2>1, <2>2 DEF Stacked
<1>14. \A k \in KnowledgeEngines : Times(e, knowledge[k]) = 0
  BY <1>3, NeverHeard DEF Typed
<1>15. Told'
  <2> SUFFICES ASSUME NEW i \in DOMAIN stack', NEW k \in KnowledgeEngines
               PROVE  Times(stack'[i].event, knowledge'[k]) =
                          Among(k, stack'[i].at - 1, listeners')
    BY DEF Told
  <2>1. CASE i = Len(stack')
    <3>1. stack'[i].event = e /\ stack'[i].at - 1 = 0
      BY <1>8, <2>1
    <3> QED  BY <1>1, <1>14, <3>1, CountNobody
  <2>2. CASE i \in DOMAIN stack
    <3>1. stack'[i] = stack[i] /\ knowledge' = knowledge /\ listeners' = listeners
      BY <1>1, <1>8, <2>2
    <3> QED  BY <2>2, <3>1 DEF Told
  <2> QED  BY <1>8, <2>1, <2>2
<1>16. Learned'
  <2> SUFFICES ASSUME NEW x \in Events' \ OnStack'
               PROVE  LearnedOf(x)'
    BY DEF Learned
  <2>1. x \in Events \ OnStack
    BY <1>3, <1>4
  <2>2. LearnedOf(x)
    BY <2>1 DEF Learned
  <2> QED  BY <1>1, <1>6, <2>1, <2>2 DEF LearnedOf
<1>17. OrderLostOnlyByNesting'
  BY <1>1, <1>6 DEF OrderLostOnlyByNesting, Typed
<1> QED  BY <1>5, <1>10, <1>11, <1>12, <1>15, <1>16, <1>17

(* A listener is registered between broadcasts.                            *)
LEMMA AddKeepsInv ==
    ASSUME Inv, NEW l \in KnowledgeEngines \cup Outsiders, AddListener(l)
    PROVE  Inv'
<1> USE DEF Inv
<1>1. /\ stack = <<>> /\ listeners' = Append(listeners, l)
      /\ UNCHANGED <<memories, knowledge, stack, known, during, cut>>
  BY DEF AddListener, Idle, histories
<1>2. Events' = Events /\ OnStack = {} /\ OnStack' = {}
  BY <1>1 DEF Events, OnStack
<1>3. Len(listeners') = Len(listeners) + 1 /\ Len(listeners) \in Nat
      /\ \A i \in 1 .. Len(listeners) : listeners'[i] = listeners[i]
  BY <1>1 DEF Typed
<1>4. Typed'
  <2>1. listeners' \in Seq(KnowledgeEngines \cup Outsiders)
    BY <1>1 DEF Typed
  <2>2. \A e \in Events : known[e] \in Nat /\ known[e] <= Len(listeners')
    BY <1>3 DEF Typed, Events
  <2> QED  BY <1>1, <1>2, <2>1, <2>2 DEF Typed
<1>5. Walks' /\ Nested' /\ Stacked' /\ Told'
  BY <1>1 DEF Walks, Nested, Stacked, Told
<1>6. Learned'
  <2> SUFFICES ASSUME NEW e \in Events PROVE LearnedOf(e)'
    BY <1>2 DEF Learned
  <2>1. PICK stop \in 1 .. known[e] + 1 :
            /\ IF e \in cut
               THEN stop <= known[e] /\ listeners[stop] \in Outsiders
               ELSE stop = known[e] + 1
            /\ \A k \in KnowledgeEngines :
                   Times(e, knowledge[k]) = Among(k, stop - 1, listeners)
    BY <1>2 DEF Learned, LearnedOf
  <2>2. known[e] \in Nat /\ known[e] <= Len(listeners)
    BY DEF Typed, Events
  <2>3. \A k \in KnowledgeEngines :
            Among(k, stop - 1, listeners') = Among(k, stop - 1, listeners)
    <3>1. stop - 1 \in Nat /\ stop - 1 <= Len(listeners)
      BY <1>3, <2>2
    <3> QED  BY <1>1, <3>1, CountsStay DEF Typed
  <2>4. stop <= known[e] => listeners'[stop] = listeners[stop]
    BY <1>3, <2>2
  <2> QED  BY <1>1, <2>1, <2>3, <2>4 DEF LearnedOf
<1>7. OrderLostOnlyByNesting'
  BY <1>1 DEF OrderLostOnlyByNesting
<1> QED  BY <1>4, <1>5, <1>6, <1>7

(* What moving on to the next listener changes.                            *)
LEMMA AdvanceMoves ==
    ASSUME Typed, stack # <<>>, Advance
    PROVE  /\ stack' \in Seq(Frames) /\ Len(stack') = Len(stack) /\ DOMAIN stack' = DOMAIN stack
           /\ \A i \in DOMAIN stack :
                /\ i # Len(stack) => stack'[i] = stack[i]
                /\ stack'[i].event = stack[i].event /\ stack'[i].upto = stack[i].upto
           /\ stack'[Len(stack)].at = stack[Len(stack)].at + 1
           /\ OnStack' = OnStack
<1> DEFINE top == Len(stack)
<1>1. stack \in Seq(Frames) /\ top \in DOMAIN stack /\ stack[top] \in Frames
  BY TopFrame DEF Typed
<1>2. [stack[top] EXCEPT !.at = @ + 1] \in Frames
  BY <1>1 DEF Frames
<1>3. stack' = [stack EXCEPT ![top] = [stack[top] EXCEPT !.at = @ + 1]]
  BY DEF Advance
<1>4. stack' \in Seq(Frames) /\ Len(stack') = Len(stack) /\ DOMAIN stack' = DOMAIN stack
  BY <1>1, <1>2, <1>3
<1>5. \A i \in DOMAIN stack : i # top => stack'[i] = stack[i]
  BY <1>3
<1>6. /\ stack'[top].event = stack[top].event /\ stack'[top].upto = stack[top].upto
      /\ stack'[top].at = stack[top].at + 1
  <2>1. stack'[top] = [stack[top] EXCEPT !.at = @ + 1]
    BY <1>1, <1>3
  <2> QED  BY <1>1, <2>1 DEF Frames
<1>7. \A i \in DOMAIN stack :
          stack'[i].event = stack[i].event /\ stack'[i].upto = stack[i].upto
  BY <1>5, <1>6
<1>8. OnStack' = OnStack
  BY <1>4, <1>7 DEF OnStack
<1> QED  BY <1>4, <1>5, <1>6, <1>7, <1>8

(* The top of the stack, as the invariant has it.                          *)
LEMMA TopWalks ==
    ASSUME Typed, Walks, stack # <<>>
    PROVE  LET f == stack[Len(stack)]
           IN  /\ Len(stack) \in Nat /\ Len(stack) \in DOMAIN stack /\ f = Frame
               /\ f.event \in Events \ cut /\ f.upto = known[f.event]
               /\ f.upto \in Nat /\ f.at \in 1 .. f.upto + 1 /\ f.upto <= Len(listeners)
<1> DEFINE f == stack[Len(stack)]
<1>1. Len(stack) \in DOMAIN stack /\ f = Frame /\ f \in Frames
  BY TopFrame
<1>2. f.event \in Events \ cut /\ f.upto = known[f.event] /\ f.at \in 1 .. f.upto + 1
  BY <1>1 DEF Walks
<1>3. f.upto \in Nat
  BY <1>1 DEF Frames
<1>4. known[f.event] <= Len(listeners)
  BY <1>2 DEF Typed
<1>5. Len(stack) \in Nat
  BY DEF Typed
<1> QED  BY <1>1, <1>2, <1>3, <1>4, <1>5

(* The listener at the top returns: whoever it was, the next is asked.     *)
LEMMA AdvanceKeepsWalks ==
    ASSUME Inv, Walking, Advance, UNCHANGED <<memories, listeners, known, during, cut>>
    PROVE  Walks' /\ Nested' /\ Stacked' /\ Events' = Events /\ OnStack' = OnStack
<1> USE DEF Inv
<1> DEFINE top == Len(stack)
<1>1. stack # <<>> /\ Frame.at <= Frame.upto
  BY DEF Walking, Idle
<1>2. /\ Len(stack') = Len(stack) /\ DOMAIN stack' = DOMAIN stack
      /\ \A i \in DOMAIN stack :
           /\ i # top => stack'[i] = stack[i]
           /\ stack'[i].event = stack[i].event /\ stack'[i].upto = stack[i].upto
      /\ stack'[top].at = stack[top].at + 1
      /\ OnStack' = OnStack
  BY <1>1, AdvanceMoves
<1>3. Events' = Events
  BY DEF Events
<1>4. /\ stack[top].upto \in Nat /\ stack[top].at \in 1 .. stack[top].upto + 1
      /\ stack[top] = Frame
  BY <1>1, TopWalks
<1>5. stack'[top].at \in 1 .. stack[top].upto + 1
  BY <1>1, <1>2, <1>4
<1>6. Walks'
  <2> SUFFICES ASSUME NEW i \in DOMAIN stack
               PROVE  /\ stack'[i].event \in Events \ cut
                      /\ stack'[i].upto = known[stack'[i].event]
                      /\ stack'[i].at \in 1 .. stack'[i].upto + 1
                      /\ i < Len(stack) =>
                           /\ stack'[i].at <= stack'[i].upto
                           /\ listeners[stack'[i].at] \in Outsiders
    BY <1>2, <1>3 DEF Walks
  <2>1. /\ stack[i].event \in Events \ cut
        /\ stack[i].upto = known[stack[i].event]
        /\ stack[i].at \in 1 .. stack[i].upto + 1
        /\ i < Len(stack) =>
             stack[i].at <= stack[i].upto /\ listeners[stack[i].at] \in Outsiders
    BY DEF Walks
  <2>2. CASE i = top
    BY <1>2, <1>5, <2>1, <2>2
  <2>3. CASE i # top
    BY <1>2, <2>1, <2>3
  <2> QED  BY <2>2, <2>3
<1>7. Nested'
  BY <1>2, <1>3 DEF Nested
<1>8. Stacked'
  BY <1>2 DEF Stacked
<1> QED  BY <1>2, <1>3, <1>6, <1>7, <1>8

(* A knowledge engine hears the event of the broadcast on top.             *)
LEMMA HearsKeepsInv == ASSUME Inv, KnowledgeHears PROVE Inv'
<1> USE DEF Inv
<1> DEFINE top == Len(stack)
<1> PICK e : e = Heard
  OBVIOUS
<1> PICK l : l = Listener
  OBVIOUS
<1>1. /\ Walking /\ stack # <<>> /\ Frame.at <= Frame.upto
      /\ l \in KnowledgeEngines /\ Advance
      /\ knowledge' = [knowledge EXCEPT ![l] = Append(@, e)]
      /\ UNCHANGED <<memories, listeners, known, during, cut>>
  BY DEF KnowledgeHears, Walking, Idle, Learn, histories
<1>2. Walks' /\ Nested' /\ Stacked' /\ Events' = Events /\ OnStack' = OnStack
  BY <1>1, AdvanceKeepsWalks
<1>3. /\ top \in Nat /\ top \in DOMAIN stack /\ stack[top] = Frame
      /\ Frame.at \in 1 .. Frame.upto + 1 /\ Frame.upto \in Nat
      /\ Frame.event = e /\ e \in Events /\ e \in OnStack /\ l = listeners[Frame.at]
  BY <1>1, TopWalks, TopFrame DEF Heard, Listener
<1>4. e \in Nat /\ \A k \in KnowledgeEngines : knowledge[k] \in Seq(Nat)
  BY <1>3 DEF Events, Typed
<1>5. /\ \A k \in KnowledgeEngines :
            knowledge'[k] = IF k = l THEN Append(knowledge[l], e) ELSE knowledge[k]
      /\ knowledge' \in [KnowledgeEngines -> Seq(Nat)]
  BY <1>1, <1>4 DEF Typed
<1>6. Typed'
  <2>1. \A k \in KnowledgeEngines : \A i \in DOMAIN knowledge'[k] : knowledge'[k][i] \in Events
    <3> SUFFICES ASSUME NEW k \in KnowledgeEngines, NEW i \in DOMAIN knowledge'[k]
                 PROVE  knowledge'[k][i] \in Events
      OBVIOUS
    <3>1. \A j \in DOMAIN knowledge[k] : knowledge[k][j] \in Events
      BY DEF Typed
    <3>2. CASE k = l
      <4>1. knowledge'[k] = Append(knowledge[k], e) /\ knowledge[k] \in Seq(Nat)
        BY <1>4, <1>5, <3>2
      <4>2. i \in DOMAIN knowledge[k] \/ knowledge'[k][i] = e
        BY <1>4, <4>1
      <4>3. i \in DOMAIN knowledge[k] => knowledge'[k][i] = knowledge[k][i]
        BY <1>4, <4>1
      <4> QED  BY <1>3, <3>1, <4>2, <4>3
    <3> QED  BY <1>5, <3>1, <3>2
  <2>2. stack' \in Seq(Frames)
    BY <1>1, AdvanceMoves
  <2> QED  BY <1>1, <1>2, <1>5, <2>1, <2>2 DEF Typed
<1>7. \A k \in KnowledgeEngines : \A x :
          Times(x, knowledge'[k]) =
              Times(x, knowledge[k]) + (IF k = l /\ x = e THEN 1 ELSE 0)
  <2> SUFFICES ASSUME NEW k \in KnowledgeEngines, NEW x
               PROVE  Times(x, knowledge'[k]) =
                          Times(x, knowledge[k]) + (IF k = l /\ x = e THEN 1 ELSE 0)
    OBVIOUS
  <2>1. Times(x, knowledge[k]) \in Nat
    BY <1>4, TimesIsANumber
  <2>2. CASE k = l
    <3>1. Times(x, Append(knowledge[l], e)) =
              Times(x, knowledge[l]) + (IF e = x THEN 1 ELSE 0)
      BY <1>1, <1>4, CountAppended
    <3> QED  BY <1>5, <2>2, <3>1
  <2>3. CASE k # l
    BY <1>5, <2>1, <2>3
  <2> QED  BY <2>2, <2>3
<1>8. \A k \in KnowledgeEngines : \A x : x # e =>
          Times(x, knowledge'[k]) = Times(x, knowledge[k])
  <2> SUFFICES ASSUME NEW k \in KnowledgeEngines, NEW x, x # e
               PROVE  Times(x, knowledge'[k]) = Times(x, knowledge[k])
    OBVIOUS
  <2>1. Times(x, knowledge'[k]) = Times(x, knowledge[k]) + 0
    BY <1>7
  <2>2. Times(x, knowledge[k]) \in Nat
    BY <1>4, TimesIsANumber
  <2> QED  BY <2>1, <2>2
<1>9. Told'
  <2> SUFFICES ASSUME NEW i \in DOMAIN stack', NEW k \in KnowledgeEngines
               PROVE  Times(stack'[i].event, knowledge'[k]) =
                          Among(k, stack'[i].at - 1, listeners')
    BY DEF Told
  <2>1. DOMAIN stack' = DOMAIN stack /\ stack'[i].event = stack[i].event
    BY <1>1, AdvanceMoves
  <2>2. Times(stack[i].event, knowledge[k]) = Among(k, stack[i].at - 1, listeners)
    BY <2>1 DEF Told
  <2>3. CASE i = top
    <3>1. stack'[i].at = stack[i].at + 1
      BY <1>1, <2>3, AdvanceMoves
    <3>2. stack[i].at - 1 \in Nat /\ stack[i].at - 1 + 1 = stack[i].at
          /\ stack'[i].at - 1 = stack[i].at
      BY <1>3, <2>3, <3>1
    <3>3. Among(k, stack[i].at - 1 + 1, listeners) =
              Among(k, stack[i].at - 1, listeners)
                + (IF listeners[stack[i].at - 1 + 1] = k THEN 1 ELSE 0)
      BY <3>2, CountNext
    <3>4. Times(e, knowledge'[k]) = Times(e, knowledge[k]) + (IF k = l THEN 1 ELSE 0)
      BY <1>7
    <3>5. listeners[stack[i].at] = l /\ stack[i].event = e
      BY <1>3, <2>3
    <3> QED  BY <1>1, <2>1, <2>2, <3>2, <3>3, <3>4, <3>5
  <2>4. CASE i # top
    <3>1. stack'[i] = stack[i]
      BY <1>1, <2>1, <2>4, AdvanceMoves
    <3>2. stack[i].event # e
      <4>1. i < top
        BY <1>3, <2>1, <2>4 DEF Typed
      <4>2. stack[i].event < stack[top].event
        BY <1>3, <2>1, <4>1 DEF Stacked
      <4> QED  BY <1>3, <1>4, <4>2
    <3> QED  BY <1>1, <1>8, <2>2, <3>1, <3>2
  <2> QED  BY <2>3, <2>4
<1>10. Learned'
  <2> SUFFICES ASSUME NEW x \in Events \ OnStack PROVE LearnedOf(x)'
    BY <1>2 DEF Learned
  <2>1. LearnedOf(x) /\ x # e
    BY <1>3 DEF Learned
  <2> QED  BY <1>1, <1>8, <2>1 DEF LearnedOf
<1>11. OrderLostOnlyByNesting'
  <2> SUFFICES ASSUME NEW k \in KnowledgeEngines,
                      NEW i \in DOMAIN knowledge'[k], NEW j \in DOMAIN knowledge'[k],
                      i < j, knowledge'[k][i] > knowledge'[k][j]
               PROVE  knowledge'[k][j] \in during[knowledge'[k][i]]
    BY <1>1 DEF OrderLostOnlyByNesting
  <2>1. CASE k # l
    BY <1>5, <2>1 DEF OrderLostOnlyByNesting
  <2>2. CASE k = l
    <3>1. knowledge'[k] = Append(knowledge[k], e)
      BY <1>5, <2>2
    <3>2. i \in DOMAIN knowledge[k] /\ knowledge'[k][i] = knowledge[k][i]
      BY <1>4, <3>1
    <3>3. CASE j \in DOMAIN knowledge[k]
      <4>1. knowledge'[k][j] = knowledge[k][j]
        BY <1>4, <3>1, <3>3
      <4> QED  BY <3>2, <3>3, <4>1 DEF OrderLostOnlyByNesting
    <3>4. CASE j \notin DOMAIN knowledge[k]
      <4>1. knowledge'[k][j] = e
        BY <1>4, <3>1, <3>4
      <4>2. knowledge[k][i] \in Events
        BY <3>2 DEF Typed
      <4> QED  BY <1>3, <3>2, <4>1, <4>2 DEF Nested
    <3> QED  BY <3>3, <3>4
  <2> QED  BY <2>1, <2>2
<1> QED  BY <1>2, <1>6, <1>9, <1>10, <1>11

(* A listener from outside learns nothing.                                 *)
LEMMA ReturnKeepsInv == ASSUME Inv, OutsiderReturns PROVE Inv'
<1> USE DEF Inv
<1> DEFINE top == Len(stack)
<1>1. /\ Walking /\ stack # <<>> /\ Frame.at <= Frame.upto
      /\ Listener \in Outsiders /\ Advance
      /\ UNCHANGED <<memories, listeners, knowledge, known, during, cut>>
  BY DEF OutsiderReturns, Walking, Idle, histories
<1>2. Walks' /\ Nested' /\ Stacked' /\ Events' = Events /\ OnStack' = OnStack
  BY <1>1, AdvanceKeepsWalks
<1>3. Typed'
  <2>1. stack' \in Seq(Frames)
    BY <1>1, AdvanceMoves
  <2> QED  BY <1>1, <1>2, <2>1 DEF Typed
<1>4. Told'
  <2> SUFFICES ASSUME NEW i \in DOMAIN stack', NEW k \in KnowledgeEngines
               PROVE  Times(stack'[i].event, knowledge'[k]) =
                          Among(k, stack'[i].at - 1, listeners')
    BY DEF Told
  <2>1. DOMAIN stack' = DOMAIN stack /\ stack'[i].event = stack[i].event
    BY <1>1, AdvanceMoves
  <2>2. Times(stack[i].event, knowledge[k]) = Among(k, stack[i].at - 1, listeners)
    BY <2>1 DEF Told
  <2>3. CASE i = top
    <3>1. stack'[i].at = stack[i].at + 1
      BY <1>1, <2>3, AdvanceMoves
    <3>2. stack[i].at \in Nat \ {0} /\ listeners[stack[i].at] # k
      BY <1>1, <2>3, TopWalks, EventsAssumption DEF Listener
    <3>3. stack[i].at - 1 \in Nat /\ stack[i].at - 1 + 1 = stack[i].at
          /\ stack'[i].at - 1 = stack[i].at
      BY <3>1, <3>2
    <3>4. Among(k, stack[i].at - 1 + 1, listeners) =
              Among(k, stack[i].at - 1, listeners)
                + (IF listeners[stack[i].at - 1 + 1] = k THEN 1 ELSE 0)
      BY <3>3, CountNext
    <3>5. Times(stack[i].event, knowledge[k]) \in Nat
      BY TimesIsANumber DEF Typed
    <3> QED  BY <1>1, <2>1, <2>2, <3>2, <3>3, <3>4, <3>5
  <2>4. CASE i # top
    <3>1. stack'[i] = stack[i]
      BY <1>1, <2>1, <2>4, AdvanceMoves
    <3> QED  BY <1>1, <2>2, <3>1
  <2> QED  BY <2>3, <2>4
<1>5. Learned'
  BY <1>1, <1>2 DEF Learned, LearnedOf
<1>6. OrderLostOnlyByNesting'
  BY <1>1 DEF OrderLostOnlyByNesting
<1> QED  BY <1>2, <1>3, <1>4, <1>5, <1>6

(* A throw ends every broadcast under way, each at the listener from       *)
(* outside that it was with.                                               *)
LEMMA ThrowKeepsInv == ASSUME Inv, OutsiderThrows PROVE Inv'
<1> USE DEF Inv
<1>1. /\ stack # <<>> /\ Frame.at <= Frame.upto /\ Listener \in Outsiders
      /\ cut' = cut \cup OnStack /\ stack' = <<>>
      /\ UNCHANGED <<memories, listeners, knowledge, known, during>>
  BY DEF OutsiderThrows, Walking, Idle, OnStack
<1>2. Events' = Events /\ OnStack' = {} /\ OnStack \subseteq Events
  BY <1>1 DEF Events, OnStack, Walks
<1>3. Typed'
  BY <1>1, <1>2 DEF Typed
<1>4. Walks' /\ Nested' /\ Stacked' /\ Told'
  BY <1>1 DEF Walks, Nested, Stacked, Told
<1>5. Learned'
  <2> SUFFICES ASSUME NEW e \in Events PROVE LearnedOf(e)'
    BY <1>2 DEF Learned
  <2>1. CASE e \notin OnStack
    <3>1. LearnedOf(e) /\ (e \in cut' <=> e \in cut)
      BY <1>1, <2>1 DEF Learned
    <3> QED  BY <1>1, <3>1 DEF LearnedOf
  <2>2. CASE e \in OnStack
    <3>1. PICK i \in DOMAIN stack : stack[i].event = e
      BY <2>2 DEF OnStack
    <3>2. /\ stack[i].at \in 1 .. known[e] + 1
          /\ stack[i].at <= known[e] /\ listeners[stack[i].at] \in Outsiders
      <4>1. stack[i].upto = known[e] /\ stack[i].at \in 1 .. stack[i].upto + 1
        BY <3>1 DEF Walks
      <4>2. CASE i = Len(stack)
        BY <1>1, <4>1, <4>2, TopWalks DEF Listener
      <4>3. CASE i # Len(stack)
        <5>1. i < Len(stack)
          BY <4>3 DEF Typed
        <5> QED  BY <3>1, <4>1, <5>1 DEF Walks
      <4> QED  BY <4>2, <4>3
    <3>3. \A k \in KnowledgeEngines :
              Times(e, knowledge[k]) = Among(k, stack[i].at - 1, listeners)
      BY <3>1 DEF Told
    <3>4. e \in cut'
      BY <1>1, <2>2
    <3> QED  BY <1>1, <3>2, <3>3, <3>4 DEF LearnedOf
  <2> QED  BY <2>1, <2>2
<1>6. OrderLostOnlyByNesting'
  BY <1>1 DEF OrderLostOnlyByNesting
<1> QED  BY <1>3, <1>4, <1>5, <1>6

(* A walk that comes to its end has told every listener the event had.     *)
LEMMA EndKeepsInv == ASSUME Inv, StoreReturns PROVE Inv'
<1> USE DEF Inv
<1> DEFINE top == Len(stack)
<1>1. /\ stack # <<>> /\ Frame.at > Frame.upto /\ stack' = Front(stack)
      /\ UNCHANGED <<memories, listeners, knowledge, known, during, cut>>
  BY DEF StoreReturns, Idle, histories
<1>2. /\ top \in Nat /\ top \in DOMAIN stack /\ stack[top] = Frame
      /\ Frame.event \in Events \ cut /\ Frame.upto = known[Frame.event]
      /\ Frame.upto \in Nat /\ Frame.at = Frame.upto + 1
  BY <1>1, TopWalks
<1>3. /\ stack' \in Seq(Frames) /\ Len(stack') = top - 1
      /\ DOMAIN stack' = DOMAIN stack \ {top}
      /\ \A i \in DOMAIN stack' : stack'[i] = stack[i]
  <2>1. stack \in Seq(Frames) /\ Front(stack) = SubSeq(stack, 1, top - 1)
    BY DEF Typed, Front
  <2>2. top - 1 \in Nat /\ top - 1 <= top
    BY <1>2, <2>1
  <2>3. /\ stack' \in Seq(Frames) /\ Len(stack') = top - 1
        /\ \A i \in 1 .. top - 1 : stack'[i] = stack[i]
    <3>1. \A s \in Seq(Frames) : \A n \in Nat : n <= Len(s) =>
              /\ SubSeq(s, 1, n) \in Seq(Frames) /\ Len(SubSeq(s, 1, n)) = n
              /\ \A i \in 1 .. n : SubSeq(s, 1, n)[i] = s[i]
      OBVIOUS
    <3> QED  BY <1>1, <2>1, <2>2, <3>1
  <2>4. DOMAIN stack' = 1 .. top - 1 /\ DOMAIN stack = 1 .. top
    BY <2>1, <2>3
  <2> QED  BY <2>2, <2>3, <2>4
<1>4. Events' = Events /\ OnStack = OnStack' \cup {Frame.event}
  BY <1>1, <1>2, <1>3 DEF Events, OnStack
<1>5. Typed'
  BY <1>1, <1>3, <1>4 DEF Typed
<1>6. Walks'
  <2>1. \A i \in DOMAIN stack' : i < Len(stack') => i < Len(stack)
    BY <1>2, <1>3
  <2> QED  BY <1>1, <1>3, <1>4, <2>1 DEF Walks
<1>7. Nested' /\ Stacked' /\ Told'
  BY <1>1, <1>3, <1>4 DEF Nested, Stacked, Told
<1>8. Learned'
  <2> SUFFICES ASSUME NEW e \in Events \ OnStack' PROVE LearnedOf(e)
    BY <1>1, <1>4 DEF Learned, LearnedOf
  <2>1. CASE e \notin OnStack
    BY <2>1 DEF Learned
  <2>2. CASE e = Frame.event
    <3>1. \A k \in KnowledgeEngines :
              Times(e, knowledge[k]) = Among(k, Frame.at - 1, listeners)
      BY <1>2, <2>2 DEF Told
    <3>2. Frame.at = known[e] + 1 /\ Frame.at \in 1 .. known[e] + 1 /\ e \notin cut
      BY <1>2, <2>2
    <3> QED  BY <3>1, <3>2 DEF LearnedOf
  <2> QED  BY <1>4, <2>1, <2>2
<1>9. OrderLostOnlyByNesting'
  BY <1>1 DEF OrderLostOnlyByNesting
<1> QED  BY <1>5, <1>6, <1>7, <1>8, <1>9

LEMMA InvInit == Init => Inv
<1> SUFFICES ASSUME Init PROVE Inv
  OBVIOUS
<1>1. Events = {} /\ stack = <<>>
  BY DEF Init, Events
<1>2. Typed
  BY <1>1 DEF Init, Typed, Events
<1>3. Walks /\ Nested /\ Stacked /\ Told /\ Learned
  BY <1>1 DEF Walks, Nested, Stacked, Told, Learned
<1>4. OrderLostOnlyByNesting
  BY DEF Init, OrderLostOnlyByNesting
<1> QED  BY <1>2, <1>3, <1>4 DEF Inv

LEMMA InvStep == Inv /\ [Next]_vars => Inv'
<1> SUFFICES ASSUME Inv, [Next]_vars PROVE Inv'
  OBVIOUS
<1>1. CASE Store
  <2>1. StoreEvent(stack) /\ stack = <<>>
    BY <1>1 DEF Store, Idle
  <2> QED  BY <2>1, StoreKeepsInv
<1>2. ASSUME NEW l \in KnowledgeEngines \cup Outsiders, AddListener(l) PROVE Inv'
  BY <1>2, AddKeepsInv
<1>3. CASE KnowledgeHears
  BY <1>3, HearsKeepsInv
<1>4. CASE OutsiderReturns
  BY <1>4, ReturnKeepsInv
<1>5. CASE OutsiderStores
  BY <1>5, StoreKeepsInv DEF OutsiderStores
<1>6. CASE OutsiderThrows
  BY <1>6, ThrowKeepsInv
<1>7. CASE StoreReturns
  BY <1>7, EndKeepsInv
<1>8. CASE CreateProject \/ UNCHANGED vars
  <2>1. UNCHANGED <<memories, listeners, knowledge, stack, known, during, cut>>
    BY <1>8 DEF CreateProject, vars, histories
  <2> QED  BY <2>1 DEF Inv, Typed, Walks, Nested, Stacked, Told, Learned, LearnedOf, Events,
                       OnStack, OrderLostOnlyByNesting
<1> QED  BY <1>1, <1>2, <1>3, <1>4, <1>5, <1>6, <1>7, <1>8 DEF Next

(* Between two calls every knowledge engine has learned each event as      *)
(* often as it was registered then, or of a broadcast a throw ended, as    *)
(* often as it was registered ahead of a listener from outside: for any    *)
(* listeners, however they store and throw inside one another.             *)
THEOREM EventsAreHeard == Spec => []HeardUpToTheThrow
<1>1. Inv => HeardUpToTheThrow
  <2> SUFFICES ASSUME Inv, stack = <<>>, NEW e \in DOMAIN memories PROVE LearnedOf(e)
    BY DEF HeardUpToTheThrow, Idle, LearnedOf, Registrations, Among
  <2>1. e \in Events /\ OnStack = {}
    BY DEF Inv, Typed, Events, OnStack
  <2> QED  BY <2>1 DEF Inv, Learned
<1> QED  BY <1>1, InvInit, InvStep, PTL DEF Spec

(* A knowledge engine has a later event first only where that was stored   *)
(* inside the broadcast of the earlier one.                                *)
THEOREM NestingAloneReorders == Spec => []OrderLostOnlyByNesting
<1>1. Inv => OrderLostOnlyByNesting
  BY DEF Inv
<1> QED  BY <1>1, InvInit, InvStep, PTL DEF Spec
=============================================================================
