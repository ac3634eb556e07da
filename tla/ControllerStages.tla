--------------------------- MODULE ControllerStages ---------------------------
(***************************************************************************)
(* A snapshot of the controller graded by a check of the course: the check  *)
(* runs its script against a cluster the program runs in, in the two        *)
(* processes a check may start.  prog is the snapshot, check the stage; the  *)
(* steps of a pass, of the informer, of the check and of the cluster are    *)
(* separate, and every call to the API server is a step of its own.         *)
(*                                                                          *)
(* A wait of a check has no deadline here and a sleep has no length, so a   *)
(* check that waits for ever is one that fails on its deadline.             *)
(***************************************************************************)
EXTENDS ControllerPasses, ControllerChecks, FiniteSets, SequencesExt

CONSTANTS None,       \* nothing is stored, cached or in hand
          Lag,        \* how many changes the program may be behind
          Gradings    \* the <<snapshot, check>> pairs to run

VARIABLES prog, check, script, verdict,       \* the check
          crd, site, dep, svc, born, evts, lease,   \* the cluster
          proc, out,                          \* the processes and their output
          cache, feed, notes, childNews,      \* what the leading one is told
          queue, backoff, timers, pass,       \* its work queue and its worker
          tally                               \* lines the check counts

grading == <<prog, check>>
objects == <<crd, site, dep, svc, born, evts, lease>>
informer == <<cache, feed, notes, childNews>>
work == <<queue, backoff, timers, pass>>
vars == <<prog, check, script, verdict, crd, site, dep, svc, born, evts, lease,
          proc, out, cache, feed, notes, childNews, queue, backoff, timers, pass, tally>>

Names == {"a", "b", "c"}
Procs == {"first", "second"}
Lasting == 10       \* more than the generations and events of any script

Runs(feature) == feature \in Observe[prog]
Watching(who) == proc[who] \in {"syncing", "running"}
Told == \E who \in Procs : Watching(who)
Worker == CHOOSE who \in Procs : Watching(who)
Ended(who) == proc[who] \in {"exited", "failed"}   \* with the code 0, and with another

\* The lines the check will look for, the only ones that are kept.
Sought(line) ==
    \/ line[1] \in {"crd", "synced", "leading", "shutting down", "count"}
    \/ check = 4 /\ line[1] = "add"
    \/ check = 6 /\ line[1] = "reconcile"
    \/ \E i \in 1..Len(script) : "line" \in DOMAIN script[i] /\ script[i].line = line

Printed(who, lines) ==
    out' = [out EXCEPT ![who] = @ \cup {line \in lines : Sought(line)}]
-------------------------------------------------------------------------------
(* The API server. *)

\* What the schema makes of a spec: Refused, or the spec with its defaults.
Accepts(spec) ==
    /\ "types" \in crd.def => spec.replicas # Text
    /\ "requires image" \in crd.def => spec.image # "none"

Stored(spec) ==
    [image |-> spec.image, host |-> spec.host, paused |-> FALSE, touched |-> FALSE,
     replicas |-> IF spec.replicas = NotSet /\ "defaults replicas" \in crd.def
                  THEN 1 ELSE spec.replicas,
     gen |-> 1, deleting |-> FALSE, fin |-> FALSE, seen |-> 0, ready |-> "none"]

\* Every change to a Website is an event for the program that watches.
Put(name, s) ==
    /\ site' = [site EXCEPT ![name] = s]
    /\ Len(feed) < Lag
    /\ feed' = IF ~Told \/ s = site[name] THEN feed
               ELSE Append(feed,
                        [verb |-> IF s = None THEN "delete"
                                  ELSE IF site[name] = None THEN "add" ELSE "update",
                         name |-> name, obj |-> s])

\* Every change to a Deployment is one for the program that watches children.
PutChild(name, d) ==
    /\ dep' = [dep EXCEPT ![name] = d]
    /\ born' = IF dep[name] = None /\ d # None THEN [born EXCEPT ![name] = @ + 1] ELSE born
    /\ childNews' =
         IF Told /\ Runs("children") /\ d # dep[name]
         THEN childNews \cup {[name |-> name,
                               owner |-> IF d = None THEN dep[name].owner ELSE d.owner]}
         ELSE childNews

Child(name, owner, image, replicas, applied) ==
    [uid |-> born[name] + 1, owner |-> owner, image |-> image, replicas |-> replicas,
     marks |-> IF owner = "site" THEN Marks[prog].owner ELSE {},
     pods |-> IF owner = "site" THEN Marks[prog].pods ELSE {"app"},
     status |-> "fresh", applied |-> applied]

ReadyReplicas(d) == IF d.status = "ready" THEN d.replicas ELSE 0

Established ==
    /\ crd # None /\ ~crd.established
    /\ crd' = [crd EXCEPT !.established = TRUE]
    /\ UNCHANGED <<grading, script, verdict, site, dep, svc, born, evts, lease,
                   proc, out, informer, work, tally>>

\* The Deployment controller reports, then the pods come up.
Rollout(name) ==
    /\ dep[name] # None /\ dep[name].status # "ready"
    /\ PutChild(name, [dep[name] EXCEPT !.status = IF @ = "fresh" THEN "seen" ELSE "ready"])
    /\ UNCHANGED <<grading, script, verdict, crd, site, svc, evts, lease, proc, out,
                   cache, feed, notes, work, tally>>

\* The garbage collector takes what a Website that is gone owned.
Collect(name) ==
    /\ site[name] = None
    /\ \/ /\ dep[name] # None /\ dep[name].owner = "site" /\ dep[name].marks # {}
          /\ PutChild(name, None)
          /\ UNCHANGED svc
       \/ /\ svc[name] # None
          /\ svc' = [svc EXCEPT ![name] = None]
          /\ UNCHANGED <<dep, born, childNews>>
    /\ UNCHANGED <<grading, script, verdict, crd, site, evts, lease, proc, out,
                   cache, feed, notes, work, tally>>

LeaseExpires ==
    /\ lease # None /\ (proc[lease] = "off" \/ Ended(lease))
    /\ lease' = None
    /\ UNCHANGED <<grading, script, verdict, crd, site, dep, svc, born, evts,
                   proc, out, informer, work, tally>>
-------------------------------------------------------------------------------
(* A process, from its start to the worker. *)

installCRD(who) ==
    /\ proc[who] = "starting"
    /\ crd' = [def |-> Crd[prog], established |-> crd # None /\ crd.established]
    /\ proc' = [proc EXCEPT ![who] = "installing"]
    /\ UNCHANGED <<grading, script, verdict, site, dep, svc, born, evts, lease,
                   out, informer, work, tally>>

announceCRD(who) ==
    /\ proc[who] = "installing" /\ crd.established
    /\ Printed(who, {<<"crd">>})
    /\ proc' = [proc EXCEPT ![who] = CASE Run[prog].then = "return" -> "exited"
                                       [] Run[prog].then = "observe" -> "listing"
                                       [] OTHER -> "standby"]
    /\ UNCHANGED <<grading, script, verdict, objects, informer, work, tally>>

lead(who) ==
    /\ proc[who] = "standby" /\ lease \in {None, who}
    /\ lease' = who
    /\ Printed(who, {<<"leading">>})
    /\ proc' = [proc EXCEPT ![who] = "listing"]
    /\ UNCHANGED <<grading, script, verdict, crd, site, dep, svc, born, evts,
                   informer, work, tally>>

\* The list, which a watcher prints and an informer hands to its handlers.
list(who) ==
    LET there == {n \in Names : site[n] # None}
        adds == [i \in 1..Cardinality(there) |->
                    [verb |-> "add", name |-> SetToSeq(there)[i]]]
    IN /\ proc[who] = "listing"
       /\ IF Runs("watch")
          THEN /\ Printed(who, {<<"add", n>> : n \in there})
               /\ tally' = IF check = 3 /\ "a" \in there THEN tally + 1 ELSE tally
               /\ proc' = [proc EXCEPT ![who] = "running"]
               /\ UNCHANGED <<cache, notes, childNews>>
          ELSE /\ cache' = site /\ notes' = adds
               /\ childNews' = IF Runs("children")
                               THEN {[name |-> n, owner |-> dep[n].owner] :
                                        n \in {m \in Names : dep[m] # None}}
                               ELSE {}
               /\ proc' = [proc EXCEPT ![who] = "syncing"]
               /\ UNCHANGED <<out, tally>>
       /\ feed' = <<>>
       /\ UNCHANGED <<grading, script, verdict, objects, work>>

synced(who) ==
    /\ proc[who] = "syncing"
    /\ Printed(who, {<<"synced", Cardinality({n \in Names : cache[n] # None})>>})
    /\ proc' = [proc EXCEPT ![who] = "running"]
    /\ UNCHANGED <<grading, script, verdict, objects, informer, work, tally>>

\* SIGTERM: the pass in hand fails with its context, nothing queued survives.  The
\* code is that of a program that has synced, the only one a check looks at.
quit(who) ==
    /\ proc[who] = "stopping"
    /\ proc' = [proc EXCEPT ![who] = "exited"]
    /\ Printed(who, IF Run[prog].says THEN {<<"shutting down">>} ELSE {})
    /\ lease' = IF lease = who /\ Lead[prog].releases THEN None ELSE lease
    /\ UNCHANGED <<grading, script, verdict, crd, site, dep, svc, born, evts, tally>>
    /\ IF lease \in {None, who}
       THEN /\ cache' = [n \in Names |-> None] /\ feed' = <<>> /\ notes' = <<>>
            /\ childNews' = {} /\ queue' = {} /\ backoff' = {} /\ timers' = {}
            /\ pass' = None
       ELSE UNCHANGED <<informer, work>>
-------------------------------------------------------------------------------
(* What the program is told. *)

\* A line about a Website, and what the checks make of it.
Counted(verb, name) ==
    tally' = IF \/ check = 3 /\ verb = "add" /\ name = "a"
                \/ check = 6 /\ verb \in {"add", "update"}
             THEN tally + 1 ELSE tally

drain ==
    /\ Told /\ Runs("watch") /\ feed # <<>>
    /\ Printed(Worker, {<<Head(feed).verb, Head(feed).name>>})
    /\ Counted(Head(feed).verb, Head(feed).name)
    /\ feed' = Tail(feed)
    /\ UNCHANGED <<grading, script, verdict, objects, proc, cache, notes, childNews, work>>

\* The informer changes its store first and tells the handlers later.
Deliver ==
    /\ Told /\ Runs("informer") /\ feed # <<>> /\ Len(notes) < Lag
    /\ cache' = [cache EXCEPT ![Head(feed).name] = Head(feed).obj]
    /\ notes' = Append(notes, [verb |-> Head(feed).verb, name |-> Head(feed).name])
    /\ feed' = Tail(feed)
    /\ UNCHANGED <<grading, script, verdict, objects, proc, out, childNews, work, tally>>

report ==
    LET note == Head(notes)
    IN /\ Told /\ notes # <<>>
       /\ Printed(Worker,
            {<<note.verb, note.name>>} \cup
            IF Runs("counts")
            THEN {<<"cache", Cardinality({n \in Names : cache[n] # None})>>} ELSE {})
       /\ Counted(note.verb, note.name)
       /\ queue' = IF Runs("enqueues") THEN queue \cup {note.name} ELSE queue
       /\ notes' = Tail(notes)
       /\ UNCHANGED <<grading, script, verdict, objects, proc, cache, feed, childNews,
                      backoff, timers, pass>>

enqueueOwner ==
    \E news \in childNews :
        /\ Told
        /\ childNews' = childNews \ {news}
        /\ IF news.owner \in Children[prog]
           THEN queue' = queue \cup {news.name} /\ Printed(Worker, {<<"child", news.name>>})
           ELSE UNCHANGED <<queue, out>>
        /\ UNCHANGED <<grading, script, verdict, objects, proc, cache, feed, notes,
                       backoff, timers, pass, tally>>
-------------------------------------------------------------------------------
(* The worker: one pass over one key, call by call. *)

\* What the calls of a pass leave to the calls after them.
Fresh == [latest |-> None, dep |-> None, svc |-> None, ready |-> 0, wanted |-> 0,
          changed |-> FALSE]

Take(key) ==
    /\ \E who \in Procs : proc[who] = "running"
    /\ pass = None /\ key \in queue
    /\ queue' = queue \ {key}
    /\ pass' = Fresh @@ [key |-> key, steps |-> Work[prog].steps, call |-> <<>>, copy |-> None]
    /\ UNCHANGED <<grading, script, verdict, objects, proc, out, informer,
                   backoff, timers, tally>>

Op == IF pass.call = <<>> THEN Head(pass.steps) ELSE Head(pass.call)
Leave == Fresh @@ [pass EXCEPT !.call = <<>>]
Rest == IF pass.call = <<>> THEN [pass EXCEPT !.steps = Tail(@)]
        ELSE IF Len(pass.call) = 1 THEN Leave ELSE [pass EXCEPT !.call = Tail(@)]
Over == [pass EXCEPT !.steps = <<>>, !.call = <<>>]
Call(calls) == [pass EXCEPT !.steps = Tail(@), !.call = calls]

\* An error goes to the log and the pass goes on, or it ends the pass and the
\* key comes back at a growing interval.
Fail(lines) ==
    IF Work[prog].onError = "log"
    THEN pass' = Leave /\ UNCHANGED <<backoff, out, tally>>
    ELSE /\ pass' = None
         /\ backoff' = backoff \cup {pass.key}
         /\ Printed(Worker, {<<"retry", pass.key>>} \cup lines)
         /\ tally' = IF check = 6 THEN tally + 1 ELSE tally

Say(lines) == Printed(Worker, lines) /\ UNCHANGED <<backoff, tally>>
Quietly == UNCHANGED <<backoff, out, tally>>

\* A line that starts with "reconcile".
Tell(line) ==
    /\ Printed(Worker, {line})
    /\ tally' = IF check = 6 THEN tally - 1 ELSE tally
    /\ UNCHANGED backoff

\* spec.replicas read as a number: nothing there reads as 0.
Reading(s) == [s EXCEPT !.replicas = IF @ = NotSet THEN 0 ELSE @]

\* What a pass decides from the copy it read.
Local ==
    /\ \/ Op = "say" /\ pass' = Rest /\ Tell(<<"reconcile", pass.key, 0>>)
       \/ Op = "count" /\ pass' = Rest /\ Say({<<"count">>})
       \/ /\ Op = "get" /\ cache[pass.key] # None
          /\ pass' = [Rest EXCEPT !.copy = Reading(cache[pass.key])] /\ Quietly
       \/ /\ Op = "get" /\ cache[pass.key] = None
          /\ pass' = Over /\ Say({<<"gone", pass.key>>})
       \/ /\ Op = "deleted"
          /\ pass' = IF ~pass.copy.deleting THEN Rest
                     ELSE [Over EXCEPT !.call = IF pass.copy.fin
                                                THEN Finalizer[prog].release ELSE <<>>]
          /\ Quietly
       \/ /\ Op = "unclaimed"
          /\ pass' = IF pass.copy.fin THEN Rest
                     ELSE [Over EXCEPT !.call = Finalizer[prog].add]
          /\ Quietly
       \/ Op = "paused" /\ ~pass.copy.paused /\ pass' = Rest /\ Quietly
       \/ Op = "paused" /\ pass.copy.paused /\ pass' = Over /\ Say({<<"paused", pass.key>>})
       \/ /\ Op = "tell" /\ pass' = Rest
          /\ Tell(<<"reconcile", pass.key, pass.copy.replicas>>)
       \/ Op = "deployment" /\ pass' = Call(Deployment[prog]) /\ Quietly
       \/ Op = "service" /\ pass' = Call(Service[prog]) /\ Quietly
       \/ Op = "status" /\ pass' = Call(Status[prog]) /\ Quietly
    /\ UNCHANGED <<objects, feed, childNews>>

\* The calls that only read.
Read ==
    /\ \/ Op = "getDeployment" /\ pass' = [Rest EXCEPT !.dep = dep[pass.key]] /\ Quietly
       \/ /\ Op = "ownedByUs"
          /\ IF dep[pass.key] # None /\ dep[pass.key].owner = "other"
             THEN Fail({<<"controlled by", pass.key>>})
             ELSE pass' = Rest /\ Quietly
       \/ Op = "getService" /\ pass' = [Rest EXCEPT !.svc = svc[pass.key]] /\ Quietly
       \/ /\ Op = "readReady" /\ Quietly
          /\ pass' = IF dep[pass.key] = None THEN Rest
                     ELSE [Rest EXCEPT !.ready = ReadyReplicas(dep[pass.key]),
                                       !.wanted = dep[pass.key].replicas]
       \/ /\ Op = "readLatest" /\ Quietly
          /\ pass' = IF site[pass.key] = None THEN Leave
                     ELSE [Rest EXCEPT !.latest = site[pass.key]]
    /\ UNCHANGED <<objects, feed, childNews>>

\* The calls that write the Deployment.  A host that is no label value makes the
\* API server refuse every child that carries it.
Refuses == Marks[prog].host /\ ~pass.copy.host

ensureDeployment ==
    LET key == pass.key
        now == dep[key]
        keep == UNCHANGED <<dep, born, childNews>>
        Write(d) == PutChild(key, d) /\ pass' = Rest /\ Quietly
        Patch(d) == IF now = None THEN Fail({}) /\ keep ELSE Write(d)
        patched == [now EXCEPT !.replicas = pass.copy.replicas, !.status = "fresh"]
        Owned(applied) == Child(key, "site", pass.copy.image, pass.copy.replicas, applied)
    IN /\ \/ /\ Op = "createDeployment"
             /\ IF pass.dep # None THEN pass' = Rest /\ Quietly /\ keep
                ELSE IF Refuses THEN Fail({}) /\ keep
                ELSE /\ pass' = Leave /\ Quietly
                     /\ IF now = None THEN PutChild(key, Owned(FALSE)) ELSE keep
          \/ /\ Op = "adopt"
             /\ IF pass.dep.owner # "nobody" THEN pass' = Rest /\ Quietly /\ keep
                ELSE IF now # pass.dep THEN Fail({}) /\ keep
                ELSE Write([now EXCEPT !.owner = "site", !.marks = Marks[prog].owner])
          \/ /\ Op = "patchReplicas"
             /\ IF pass.dep.replicas = pass.copy.replicas
                THEN pass' = Rest /\ Quietly /\ keep
                ELSE Patch(patched)
          \/ /\ Op = "patchBoth"
             /\ IF pass.dep.replicas = pass.copy.replicas /\ pass.dep.image = pass.copy.image
                THEN pass' = Rest /\ Quietly /\ keep
                ELSE Patch([patched EXCEPT !.image = pass.copy.image])
          \/ /\ Op = "applyDeployment"
             /\ IF Refuses \/ (now # None /\ now.owner = "other") THEN Fail({}) /\ keep
                ELSE Write(IF now = None THEN Owned(TRUE)
                           ELSE [Owned(TRUE) EXCEPT !.uid = now.uid, !.status =
                                   IF now.replicas = pass.copy.replicas
                                      /\ now.image = pass.copy.image
                                   THEN now.status ELSE "fresh"])
       /\ UNCHANGED <<crd, site, svc, evts, lease, feed>>

ensureService ==
    LET key == pass.key
        made == [owner |-> Marks[prog].owner, selector |-> Marks[prog].selector]
    IN /\ \/ /\ Op = "createService"
             /\ svc' = IF pass.svc = None /\ svc[key] = None
                       THEN [svc EXCEPT ![key] = made] ELSE svc
             /\ pass' = Rest /\ Quietly
          \/ /\ Op = "applyService"
             /\ svc' = [svc EXCEPT ![key] = made]
             /\ pass' = Rest /\ Quietly
          \/ /\ Op = "deleteService"
             /\ svc' = [svc EXCEPT ![key] = None]
             /\ pass' = Rest /\ Say({<<"cleaned up", key>>})
       /\ UNCHANGED <<crd, site, dep, born, evts, lease, feed, childNews>>

\* The writes to the Website, each of which fails on a copy that is not the latest.
writeWebsite ==
    LET key == pass.key
        now == site[key]
        keep == UNCHANGED <<site, feed>>
        again == [pass EXCEPT !.call = <<"readLatest">> \o @, !.latest = None]
        ready == IF "conditions" \in crd.def
                 THEN Ready[prog][pass.ready, pass.wanted] ELSE "none"
        Put1(s) == Put(key, s) /\ pass' = Rest /\ Quietly
        Reported(gen) == [now EXCEPT !.seen = gen, !.ready = ready]
    IN /\ \/ /\ Op = "writeStatus"
             /\ IF now = pass.latest THEN Put1(Reported(pass.copy.gen))
                ELSE Fail({}) /\ keep
          \/ /\ Op = "writeStatusRetried"
             /\ IF now = pass.latest
                THEN /\ Put(key, Reported(now.gen)) /\ Quietly
                     /\ pass' = IF Len(pass.call) = 1 THEN Rest
                                ELSE [Rest EXCEPT !.latest = None, !.changed = pass.latest.ready # ready]
                ELSE IF now = None THEN pass' = Leave /\ Quietly /\ keep
                ELSE ((pass' = again /\ Quietly) \/ Fail({})) /\ keep
          \/ /\ Op = "claim"
             /\ IF pass.latest.fin THEN pass' = Leave /\ Quietly /\ keep
                ELSE IF now = pass.latest THEN Put1([now EXCEPT !.fin = TRUE])
                ELSE Fail({}) /\ keep
          \/ /\ Op = "claimRetried"
             /\ IF pass.latest.fin \/ now = None THEN pass' = Leave /\ Quietly /\ keep
                ELSE IF now = pass.latest THEN Put1([now EXCEPT !.fin = TRUE])
                ELSE ((pass' = again /\ Quietly) \/ Fail({})) /\ keep
          \/ /\ Op = "letGo"
             /\ IF now = pass.latest
                THEN Put1(IF now.deleting THEN None ELSE [now EXCEPT !.fin = FALSE])
                ELSE Fail({}) /\ keep
       /\ UNCHANGED <<crd, dep, svc, born, evts, lease, childNews>>

announce ==
    /\ Op = "announce" /\ pass' = Rest /\ Quietly
    /\ evts' = IF pass.changed /\ evts[pass.key] < Lasting
               THEN [evts EXCEPT ![pass.key] = @ + 1] ELSE evts
    /\ UNCHANGED <<crd, site, dep, svc, born, lease, feed, childNews>>

Step ==
    /\ Told /\ pass # None /\ Len(pass.steps) + Len(pass.call) > 0
    /\ Local \/ Read \/ ensureDeployment \/ ensureService \/ writeWebsite \/ announce
    /\ UNCHANGED <<grading, script, verdict, proc, cache, notes, queue, timers>>

\* Done and Forget, and from snapshot 15 on the key again after resyncEvery.
Finish ==
    /\ Told /\ pass # None /\ pass.steps = <<>> /\ pass.call = <<>>
    /\ pass' = None
    /\ timers' = IF Work[prog].resync THEN timers \cup {pass.key} ELSE timers
    /\ UNCHANGED <<grading, script, verdict, objects, proc, out, informer,
                   queue, backoff, tally>>

\* The delays are over; the ten seconds of resyncEvery never are in check 6,
\* which counts passes and is shorter.
Timer(key) ==
    /\ Told
    /\ \/ key \in backoff /\ backoff' = backoff \ {key} /\ UNCHANGED timers
       \/ check # 6 /\ key \in timers /\ timers' = timers \ {key} /\ UNCHANGED backoff
    /\ queue' = queue \cup {key}
    /\ UNCHANGED <<grading, script, verdict, objects, proc, out, informer, pass, tally>>
-------------------------------------------------------------------------------
(* The check. *)

Serves(who, endpoint) ==
    endpoint \in Serve[prog] /\ proc[who] # "off" /\ ~Ended(who)

\* Everything a check waits for or asserts.  Of retries it wants no more than forty
\* in five seconds: intervals that grow leave room for ten, none for hundreds.
Holds(p) ==
    LET n == p.name
    IN CASE p.what = "synced" -> \E i \in 0..3 : <<"synced", i>> \in out[n]
         [] p.what = "synced two" -> <<"synced", 2>> \in out["first"]
         [] p.what = "add reported" -> <<"add", n>> \in out["first"]
         [] p.what = "reported once" -> tally = 1
         [] p.what = "no work invented" -> tally >= 0
         [] p.what = "reconciled" -> \E i \in -1..Lasting : <<"reconcile", n, i>> \in out["first"]
         [] p.what = "established" -> crd # None /\ crd.established
         [] p.what = "namespaced" -> "namespaced" \in crd.def
         [] p.what = "columns" -> "columns" \in crd.def
         [] p.what = "status subresource" -> "status" \in crd.def
         [] p.what = "defaulted" -> site[n].replicas = 1
         [] p.what = "deployment" -> dep[n] # None
         [] p.what = "replicas" -> dep[n] # None /\ dep[n].replicas = p.n
         [] p.what = "image follows" -> dep[n].image = site[n].image
         [] p.what = "spec follows" ->
              dep[n] # None /\ dep[n].image = site[n].image /\ dep[n].replicas = site[n].replicas
         [] p.what = "selects" -> dep[n].pods # {}
         [] p.what = "owned" ->
              dep[n] # None /\ dep[n].owner = "site"
              /\ dep[n].marks = {"uid", "kind", "controller"}
         [] p.what = "collected" -> dep[n] = None
         [] p.what = "never replaced" -> dep[n] # None /\ dep[n].uid = 1
         [] p.what = "replaced" -> dep[n] # None /\ dep[n].uid > 1
         [] p.what = "applied" -> dep[n].applied
         [] p.what = "untouched" ->
              dep[n] # None /\ dep[n].uid = 1 /\ dep[n].owner = "other"
              /\ dep[n].replicas = 1 /\ dep[n].image = "old"
         [] p.what = "service" -> svc[n] # None
         [] p.what = "service selects pods" ->
              svc[n].selector # {} /\ svc[n].selector \subseteq dep[n].pods
         [] p.what = "service owned" -> svc[n].owner # {}
         [] p.what = "observed" -> site[n].seen = site[n].gen
         [] p.what = "replicas reported" -> site[n].seen > 0
         [] p.what = "first generation" -> site[n].gen = 1
         [] p.what = "condition" -> site[n].ready # "none"
         [] p.what = "ready" -> site[n].ready = "True"
         [] p.what = "claimed" -> site[n].fin
         [] p.what = "backs off" -> Work[prog].onError = "return"
         [] p.what = "held open" -> site[n] # None /\ site[n].deleting
         [] p.what = "website gone" -> site[n] = None
         [] p.what = "event" -> evts[n] > 0
         [] p.what = "few events" -> evts[n] <= 6
         [] p.what = "metrics" -> Serves(n, "metrics")
         [] p.what = "healthz" -> Serves(n, "healthz")
         [] p.what = "readyz" -> Serves(n, "readyz") /\ proc[n] = "running"
         [] p.what = "endpoints gone" -> ~Serves(n, "healthz")
         [] p.what = "passes counted" -> <<"count">> \in out["first"]
         [] p.what = "running" -> ~Ended(n)
         [] p.what = "exited" -> Ended(n)
         [] p.what = "exit code 0" -> proc[n] = "exited"
         [] p.what = "standing by" -> ~Ended(n) /\ <<"leading">> \notin out[n]
         [] p.what = "holder" -> lease = n
         [] p.what = "said so" -> <<"shutting down">> \in out[n]

cluster == <<crd, site, dep, svc, born, evts, lease, feed, childNews>>
Then(words) == script' = words /\ UNCHANGED verdict
Failed == verdict' = "failed" /\ UNCHANGED script
OnFailed(ok) == IF ok THEN Then(Tail(script)) ELSE Failed

\* A word that changes nothing but the script and the verdict.
Look(w) ==
    /\ \/ /\ w.op = "wait" /\ w.what # "line" /\ Holds(w) /\ Then(Tail(script))
       \/ /\ w.op = "wait" /\ w.what = "line"
          /\ w.line \in out[w.who] \/ Ended(w.who)
          /\ OnFailed(w.line \in out[w.who])
       \/ w.op = "expect" /\ OnFailed(Holds(w))
       \/ w.op = "refused" /\ OnFailed(~Accepts(w.spec))
       \/ /\ w.op = "ensureCRD"
          /\ Then((IF crd # None /\ crd.established THEN <<>>
                   ELSE <<launch("first", {}), Announced, Stop("first"),
                          waitFor("established", "a")>>) \o Tail(script))
    /\ UNCHANGED <<cluster, proc, out>>

\* A word that starts or stops the program.
Process(w) ==
    /\ \/ /\ w.op = "launch"
          /\ proc' = [proc EXCEPT ![w.who] =
                        IF w.flags \subseteq Run[prog].flags THEN "starting" ELSE "failed"]
          /\ out' = [out EXCEPT ![w.who] = {}]
          /\ Then(Tail(script))
       \/ /\ w.op = "stop"
          /\ proc' = [proc EXCEPT ![w.who] = IF Ended(w.who) THEN @ ELSE "stopping"]
          /\ Then(<<waitFor("exited", w.who)>> \o Tail(script))
          /\ UNCHANGED out
    /\ UNCHANGED cluster

\* A word that changes the cluster behind the program's back.
Deed(w) ==
    /\ \/ /\ w.op = "removeCRD"
          /\ crd' = None
          /\ UNCHANGED <<site, feed, dep, born, childNews>>
       \/ /\ w.op = "create" /\ Put(w.name, Stored(w.spec))
          /\ UNCHANGED <<crd, dep, born, childNews>>
       \/ /\ w.op = "update"
          /\ LET s == w.change @@ site[w.name]
                 spec == DOMAIN w.change \cap {"image", "replicas", "host"}
             IN Put(w.name, IF spec = {} \/ s = site[w.name] THEN s
                            ELSE [s EXCEPT !.gen = @ + 1])
          /\ UNCHANGED <<crd, dep, born, childNews>>
       \/ /\ w.op = "delete"
          /\ Put(w.name, IF site[w.name].fin THEN [site[w.name] EXCEPT !.deleting = TRUE]
                         ELSE None)
          /\ UNCHANGED <<crd, dep, born, childNews>>
       \/ /\ w.op = "scale"
          /\ PutChild(w.name, [dep[w.name] EXCEPT !.replicas = w.replicas, !.status = "fresh"])
          /\ UNCHANGED <<crd, site, feed>>
       \/ w.op = "deleteChild" /\ PutChild(w.name, None) /\ UNCHANGED <<crd, site, feed>>
       \/ /\ w.op = "seed" /\ PutChild(w.name, Child(w.name, w.owner, "old", 1, FALSE))
          /\ UNCHANGED <<crd, site, feed>>
    /\ Then(Tail(script))
    /\ UNCHANGED <<svc, evts, lease, proc, out>>

Check ==
    /\ script # <<>>
    /\ LET w == Head(script) IN Look(w) \/ Process(w) \/ Deed(w)
    /\ UNCHANGED <<grading, cache, notes, work, tally>>

Pass ==
    /\ script = <<>>
    /\ verdict' = "passed"
    /\ UNCHANGED <<grading, script, objects, proc, out, informer, work, tally>>
-------------------------------------------------------------------------------
\* A definition may be left over from the first snapshot.
Init ==
    /\ \E g \in Gradings : prog = g[1] /\ check = g[2]
    /\ script = Checks[check] /\ verdict = "running"
    /\ crd \in {None, [def |-> Crd[1], established |-> TRUE]}
    /\ site = [n \in Names |-> None] /\ dep = site /\ svc = site
    /\ born = [n \in Names |-> 0] /\ evts = born /\ lease = None
    /\ proc = [who \in Procs |-> "off"] /\ out = [who \in Procs |-> {}]
    /\ cache = site /\ feed = <<>> /\ notes = <<>> /\ childNews = {}
    /\ queue = {} /\ backoff = {} /\ timers = {} /\ pass = None /\ tally = 0

Start(who) == \/ installCRD(who) \/ announceCRD(who) \/ lead(who) \/ list(who)
              \/ synced(who) \/ quit(who)
News == drain \/ Deliver \/ report
Working == Step \/ Finish \/ \E key \in Names : Take(key)
Cluster(name) == Rollout(name) \/ Collect(name)

Running(A) == verdict = "running" /\ A

Next ==
    \/ Running(Check \/ Pass)
    \/ Running(Established \/ LeaseExpires)
    \/ \E who \in Procs : Running(Start(who))
    \/ Running(News \/ enqueueOwner) \/ Running(Working)
    \/ \E name \in Names : Running(Timer(name) \/ Cluster(name))

\* Every process, the check and the cluster go on.
Fairness ==
    /\ WF_vars(Running(Check \/ Pass))
    /\ WF_vars(Running(Established)) /\ WF_vars(Running(LeaseExpires))
    /\ WF_vars(Running(News)) /\ WF_vars(Running(enqueueOwner)) /\ WF_vars(Running(Working))
    /\ \A who \in Procs : WF_vars(Running(Start(who)))
    /\ \A name \in Names : WF_vars(Running(Timer(name))) /\ WF_vars(Running(Cluster(name)))

Grading == Init /\ [][Next]_vars /\ Fairness
===============================================================================
