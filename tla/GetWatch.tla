------------------------------- MODULE GetWatch -------------------------------
(***************************************************************************)
(* get of the kubectl program, with -w: fetch asks for a list or for one    *)
(* object, get prints it, and streamChanges watches from the version of the *)
(* list.  Users change the objects between any two of its steps, the API    *)
(* server forgets old versions, and a watch may end.                        *)
(*                                                                          *)
(* The revision of the collection is the number of changes there have been. *)
(***************************************************************************)
EXTENDS Integers, Sequences, FiniteSets, SequencesExt

CONSTANTS Objects,    \* <<namespace, name>>, both numbers, for their order
          Everywhere, \* no namespace: -A
          None,       \* no object, no name, no version
          MostChanges \* how often the objects change

ASSUME GetWatchAssumption ==
    Objects \subseteq Nat \X Nat /\ IsFiniteSet(Objects) /\ MostChanges \in Nat
    /\ Everywhere \notin Nat /\ None \notin Nat

\* get's parameters, of a resource mapResource has found.
Requests ==
    [ns : {key[1] : key \in Objects} \cup {Everywhere},
     name : {key[2] : key \in Objects} \cup {None},
     selector : BOOLEAN, watch : BOOLEAN,
     output : {"table", "json", "unknown"}]

VARIABLES objects,  \* what is stored: None, or whether the selector selects it
          history,  \* the changes, each with what was there before and after
          oldest,   \* the first revision a watch can still start from
          request, pc,
          list,     \* the objects in hand
          since,    \* list.GetResourceVersion()
          table, stream, \* the rows printed, at once and as things change
          pending,  \* objects the watch has yet to replay
          seen      \* the revision the stream has come to

server == <<objects, history, oldest>>
screen == <<table, stream>>
vars == <<server, request, pc, list, since, screen, pending, seen>>

Kinds == {None} \cup BOOLEAN
Revision == Len(history)

TypeOK ==
    /\ objects \in [Objects -> Kinds]
    /\ history \in Seq([key : Objects, was : Kinds, now : Kinds])
    /\ oldest \in 0..Revision /\ request \in Requests
    /\ pc \in {"fetch", "show", "watch", "stream", "done", "failed"}
    /\ {list, table, stream} \subseteq Seq(Objects) /\ pending \subseteq Objects
    /\ since \in {None} \cup 0..Revision /\ seen \in 0..Revision

Init ==
    /\ objects \in [Objects -> Kinds] /\ history = <<>> /\ oldest = 0
    /\ request \in Requests /\ pc = "fetch"
    /\ list = <<>> /\ since = None /\ table = <<>> /\ stream = <<>>
    /\ pending = {} /\ seen = 0

-------------------------------------------------------------------------------
(* The API server. *)

InScope(key) == request.ns \in {key[1], Everywhere}
Matches(kind) == kind # None /\ (request.selector => kind)

Alive == pc \notin {"done", "failed"}

\* A user creates, labels, edits or deletes an object.  What comes after the
\* program has ended is left out.
Change(key) ==
    /\ Revision < MostChanges /\ Alive
    /\ \E now \in Kinds :
         /\ ~(objects[key] = None /\ now = None)
         /\ history' = Append(history, [key |-> key, was |-> objects[key], now |-> now])
         /\ objects' = [objects EXCEPT ![key] = now]
    /\ UNCHANGED <<oldest, request, pc, list, since, screen, pending, seen>>

Compact ==
    /\ oldest < Revision /\ Alive
    /\ oldest' = Revision
    /\ UNCHANGED <<objects, history, request, pc, list, since, screen, pending, seen>>

\* A watch tells of a change if the object was selected, or now is.
Tells(change) == InScope(change.key) /\ (Matches(change.was) \/ Matches(change.now))

-------------------------------------------------------------------------------
(* The program. *)

Listed == {key \in Objects : InScope(key) /\ Matches(objects[key])}

\* List, in whatever order the API server has them.
fetchList ==
    /\ request.name = None
    /\ list' \in SetToSeqs(Listed) /\ since' = Revision /\ pc' = "show"

\* Get: one object, whatever its labels, and a list that has no version of its
\* own.  A Get without a namespace is an error, as is one of what is not there.
fetchOne ==
    /\ request.name # None
    /\ LET key == <<request.ns, request.name>>
       IN IF key \in Objects /\ objects[key] # None
          THEN list' = <<key>> /\ pc' = "show" ELSE list' = <<>> /\ pc' = "failed"
    /\ since' = None

fetch ==
    /\ pc = "fetch" /\ (fetchList \/ fetchOne)
    /\ UNCHANGED <<server, request, screen, pending, seen>>

Before(a, b) == a[1] < b[1] \/ (a[1] = b[1] /\ a[2] < b[2])
Ordered(keys) == \A i, j \in DOMAIN keys : i < j => Before(keys[i], keys[j])

\* sort.Slice, by namespace and then by name; no object is listed twice.
Sorted(keys) == CHOOSE s \in SetToSeqs(ToSet(keys)) : Ordered(s)

\* get, from the list on: JSON is printed and never watched, an unknown format is
\* noticed only now.
show ==
    /\ pc = "show"
    /\ IF request.output = "unknown" THEN pc' = "failed" /\ UNCHANGED table
       ELSE /\ table' = IF request.output = "table" THEN Sorted(list) ELSE list
            /\ pc' = IF request.output = "table" /\ request.watch THEN "watch" ELSE "done"
    /\ UNCHANGED <<server, request, list, since, stream, pending, seen>>

\* A slip: the watch starts from no version.
streamChangesAnew ==
    /\ pc = "watch"
    /\ pc' = "stream" /\ pending' = Listed /\ seen' = Revision
    /\ UNCHANGED <<server, request, list, since, screen>>

\* streamChanges asks for a watch of the namespace, by the selectors alone.  From
\* no version it is told of all there is first; from one that is forgotten it is
\* sent an error, which the loop skips, and the stream ends.
streamChanges ==
    /\ pc = "watch"
    /\ IF since # None /\ since < oldest
       THEN pc' = "done" /\ UNCHANGED <<pending, seen>>
       ELSE /\ pc' = "stream"
            /\ pending' = IF since = None THEN Listed ELSE {}
            /\ seen' = IF since = None THEN Revision ELSE since
    /\ UNCHANGED <<server, request, list, since, screen>>

\* One turn of the loop over the watch's events; those of other objects are never
\* sent.
Event ==
    /\ pc = "stream"
    /\ \/ \E key \in pending :
            stream' = Append(stream, key) /\ pending' = pending \ {key} /\ UNCHANGED seen
       \/ /\ pending = {} /\ seen < Revision
          /\ seen' = seen + 1
          /\ stream' = IF Tells(history[seen']) THEN Append(stream, history[seen'].key) ELSE stream
          /\ UNCHANGED pending
    /\ UNCHANGED <<server, request, pc, list, since, table>>

\* The API server closes the watch: the loop ends, and the program with it.
WatchEnds ==
    /\ pc = "stream" /\ pc' = "done"
    /\ UNCHANGED <<server, request, list, since, screen, pending, seen>>

\* The API server does not answer.
CallFails ==
    /\ pc \in {"fetch", "watch"} /\ pc' = "failed"
    /\ UNCHANGED <<server, request, list, since, screen, pending, seen>>

Next ==
    \/ \E key \in Objects : Change(key)
    \/ Compact
    \/ fetch \/ show \/ streamChanges \/ Event \/ WatchEnds \/ CallFails

Spec == Init /\ [][Next]_vars

-------------------------------------------------------------------------------
(* The properties. *)

\* An object as it was at a revision: what the first change after it replaced.
At(key, revision) ==
    LET later == {r \in (revision + 1)..Revision : history[r].key = key}
    IN IF later = {} THEN objects[key]
       ELSE history[CHOOSE r \in later : \A s \in later : r <= s].was

Selected(revision) == {key \in Objects : InScope(key) /\ Matches(At(key, revision))}

\* streamChanges: a stream that starts exactly where the list ended.  The table of
\* a list has each object that was selected when it was taken, once and in order,
\* and what follows is each change since, once and in order: nothing is shown
\* twice, and nothing is missed between the list and the watch.
ScreenFollows ==
    request.name = None /\ request.output = "table" /\ pc \in {"watch", "stream", "done"} =>
      /\ Len(table) = Cardinality(Selected(since)) /\ ToSet(table) = Selected(since)
      /\ Ordered(table)
      /\ LET told == {r \in (since + 1)..seen : Tells(history[r])}
         IN /\ Len(stream) = Cardinality(told)
            /\ \A r \in told : stream[Cardinality({q \in told : q <= r})] = history[r].key
===============================================================================
