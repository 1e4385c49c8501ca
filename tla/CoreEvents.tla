----------------------------- MODULE CoreEvents -----------------------------
(***************************************************************************)
(* The memory engine of HBOS and what hears of its events: the reaction    *)
(* engine the constructor of HBOS subscribes, knowledge engines, and       *)
(* listeners from outside, which may throw and may store an event of their *)
(* own while they hear one.  A broadcast is a synchronous walk along the   *)
(* listeners, kept here as a stack of frames.  Besides it, the project     *)
(* pilot with the memory engine it makes for itself, which nobody hears.   *)
(***************************************************************************)
EXTENDS Naturals, FiniteSets, SequencesExt

CONSTANTS
    KnowledgeEngines,   \* the knowledge engines somebody may register
    Outsiders,          \* listeners that are none
    MaxEvents,          \* bound: events stored
    MaxListeners,       \* bound: registrations
    MaxProjects         \* bound: projects

ASSUME EventsAssumption ==
    /\ MaxEvents \in Nat /\ MaxListeners \in Nat /\ MaxProjects \in Nat
    /\ KnowledgeEngines \cap Outsiders = {}

VARIABLES
    memories,       \* the events of the memory engine, numbered as stored
    reactions,      \* what the reaction engine was told
    listeners,      \* the registrations
    knowledge,      \* what each knowledge engine learned
    stack,          \* the broadcasts under way, the innermost last
    known,          \* history: how many listeners there were for an event
    during,         \* history: the events being broadcast when it was stored
    cut,            \* history: the events whose broadcast a throw ended
    projects,       \* ProjectRegistry of the pilot
    pilotMemory     \* its own memory engine

histories == <<known, during, cut>>
pilot == <<projects, pilotMemory>>
vars == <<memories, reactions, listeners, knowledge, stack, histories, pilot>>

Idle == stack = <<>>
Frame == Last(stack)
Heard == Frame.event
Listener == listeners[Frame.at]

-----------------------------------------------------------------------------
(* Fault: the walk ends before the newest listener.                        *)
BroadcastShort(e) == [event |-> e, at |-> 1, upto |-> Len(listeners) - 1]

(* The walk of store along its listeners.                                  *)
Broadcast(e) == [event |-> e, at |-> 1, upto |-> Len(listeners)]

(* MemoryEngine.store up to its walk: the event is kept and the subscribed *)
(* reaction engine told before any listener hears of it.                   *)
StoreEvent(frames) ==
    LET e == Len(memories) + 1
    IN  /\ e <= MaxEvents
        /\ memories' = Append(memories, e)
        /\ reactions' = Append(reactions, e)
        /\ stack' = Append(frames, Broadcast(e))
        /\ known' = Append(known, Len(listeners))
        /\ during' = Append(during, {frames[i].event : i \in DOMAIN frames})
        /\ UNCHANGED <<listeners, knowledge, cut, pilot>>

Store == Idle /\ StoreEvent(stack)

AddListener(l) ==
    /\ Idle /\ Len(listeners) < MaxListeners
    /\ listeners' = Append(listeners, l)
    /\ UNCHANGED <<memories, reactions, knowledge, stack, histories, pilot>>

(* The listener whose turn it is returned.                                 *)
Advance == stack' = [stack EXCEPT ![Len(stack)].at = @ + 1]

Walking == ~Idle /\ Frame.at <= Frame.upto

(* Fault: what is learned last is put first.                               *)
LearnFirst(k, e) == knowledge' = [knowledge EXCEPT ![k] = <<e>> \o @]

(* KnowledgeEngine.onEvent and learn                                       *)
Learn(k, e) == knowledge' = [knowledge EXCEPT ![k] = Append(@, e)]

KnowledgeHears ==
    /\ Walking /\ Listener \in KnowledgeEngines
    /\ Learn(Listener, Heard) /\ Advance
    /\ UNCHANGED <<memories, reactions, listeners, histories, pilot>>

(* A listener from outside: it returns, or stores an event first, or       *)
(* throws, which nothing on the way to the caller of store catches.        *)
OutsiderReturns ==
    /\ Walking /\ Listener \in Outsiders
    /\ Advance
    /\ UNCHANGED <<memories, reactions, listeners, knowledge, histories, pilot>>

OutsiderStores ==
    /\ Walking /\ Listener \in Outsiders
    /\ StoreEvent(stack)

OutsiderThrows ==
    /\ Walking /\ Listener \in Outsiders
    /\ cut' = cut \cup {stack[i].event : i \in DOMAIN stack}
    /\ stack' = <<>>
    /\ UNCHANGED <<memories, reactions, listeners, knowledge, known, during, pilot>>

StoreReturns ==
    /\ ~Idle /\ Frame.at > Frame.upto
    /\ stack' = Front(stack)
    /\ UNCHANGED <<memories, reactions, listeners, knowledge, histories, pilot>>

(* ProjectPilotEngine.createProject: its memory engine has neither a       *)
(* reaction engine nor listeners.                                          *)
CreateProject ==
    LET project == Len(projects) + 1
    IN  /\ Idle /\ project <= MaxProjects
        /\ projects' = Append(projects, project)
        /\ pilotMemory' = Append(pilotMemory, project)
        /\ UNCHANGED <<memories, reactions, listeners, knowledge, stack, histories>>

-----------------------------------------------------------------------------
Init ==
    /\ memories = <<>> /\ reactions = <<>> /\ listeners = <<>>
    /\ knowledge = [k \in KnowledgeEngines |-> <<>>]
    /\ stack = <<>> /\ known = <<>> /\ during = <<>> /\ cut = {}
    /\ projects = <<>> /\ pilotMemory = <<>>

Next ==
    \/ Store
    \/ \E l \in KnowledgeEngines \cup Outsiders : AddListener(l)
    \/ KnowledgeHears \/ OutsiderReturns \/ OutsiderStores \/ OutsiderThrows
    \/ StoreReturns
    \/ CreateProject

Spec == Init /\ [][Next]_vars

-----------------------------------------------------------------------------
(* Properties.                                                             *)

Times(e, s) == Cardinality({i \in DOMAIN s : s[i] = e})
Registrations(k, n) == Cardinality({i \in 1..n : listeners[i] = k})

(* Between two calls a knowledge engine has learned an event as often as   *)
(* it was registered when the event was stored; of an event whose          *)
(* broadcast was cut short, as often as it was registered ahead of some    *)
(* listener from outside.  Memory keeps the event either way.              *)
HeardUpToTheThrow ==
    Idle =>
        \A e \in DOMAIN memories :
            \E stop \in 1..(known[e] + 1) :
                /\ IF e \in cut
                   THEN stop <= known[e] /\ listeners[stop] \in Outsiders
                   ELSE stop = known[e] + 1
                /\ \A k \in KnowledgeEngines :
                       Times(e, knowledge[k]) = Registrations(k, stop - 1)

(* A knowledge engine learns events in another order than memory has them  *)
(* only where the later one was stored while the earlier one was still     *)
(* being broadcast.                                                        *)
OrderLostOnlyByNesting ==
    \A k \in KnowledgeEngines : \A i, j \in DOMAIN knowledge[k] :
        i < j /\ knowledge[k][i] > knowledge[k][j] =>
            knowledge[k][j] \in during[knowledge[k][i]]
=============================================================================
