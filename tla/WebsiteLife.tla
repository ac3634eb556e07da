----------------------------- MODULE WebsiteLife -----------------------------
(***************************************************************************)
(* What the controller promises of one name of one namespace: the Website, *)
(* its Deployment and its Service, and a controller that acts on them in   *)
(* one step each.  There is no cache here, no queue, no pass, no retry and *)
(* no crash: only what the Website has asked for, and what its Deployment  *)
(* has shown, since the controller last lost sight of it.                  *)
(***************************************************************************)
EXTENDS Integers

CONSTANTS Specs, BadSpecs, Drift, NoSite, NoChild, NoOwner, Foreign, MaxSites

VARIABLES site,    \* the Website, or NoSite
          dep,     \* its Deployment, or NoChild
          svc,     \* the controller of its Service, or NoChild
          created, \* how many Websites of the name there have been
          asked,   \* the specs this Website has asked for and which may still
                   \* be acted on
          shown    \* the readiness that may still be reported

objects == << site, dep, svc, created >>
vars == << objects, asked, shown >>

\* A Website that is paused, or whose deletion has begun, asks for nothing.
Asks(s) ==
  IF s # NoSite /\ ~s.del /\ ~s.paused THEN {s.spec} ELSE {}

Shows(d) == d # NoChild /\ d.ready

Init ==
  /\ site = NoSite /\ dep = NoChild /\ svc = NoChild /\ created = 0
  /\ asked = {} /\ shown = {FALSE}

\* What the Website asks for now may always be acted on, what it asked for
\* before only until it is forgotten, and nothing that another Website of the
\* name has asked for.
Remembers ==
  /\ Asks(site') \subseteq asked'
  /\ asked' \subseteq Asks(site')
                       \cup IF created' = created /\ site' # NoSite THEN asked ELSE {}
  /\ Shows(dep') \in shown'
  /\ shown' \subseteq shown \cup {Shows(dep')}

-----------------------------------------------------------------------------
(* The controller                                                          *)

\* A Website is held open before anything is made for it, and never one whose
\* deletion has begun.
Hold ==
  /\ site # NoSite /\ ~site.del
  /\ site' = [site EXCEPT !.fin = TRUE]
  /\ UNCHANGED << dep, svc, created >>

\* A child is made or put right for a Website that is there and held, and has
\* asked for it; a Deployment that has another controller is left alone.
MakeDeployment ==
  /\ site # NoSite /\ site.fin
  /\ dep # NoChild => dep.ctl \in {NoOwner, site.uid}
  /\ \E spec \in asked \ BadSpecs, r \in BOOLEAN :
       /\ r => dep # NoChild /\ dep.ready
       /\ dep' = [ctl |-> site.uid, spec |-> spec, ready |-> r]
  /\ UNCHANGED << site, svc, created >>

MakeService ==
  /\ site # NoSite /\ site.fin
  /\ asked \ BadSpecs # {}
  /\ svc # Foreign
  /\ svc' = site.uid
  /\ UNCHANGED << site, dep, created >>

\* The status is written and nothing else, with a readiness that was seen.
Report ==
  /\ site # NoSite
  /\ asked \ BadSpecs # {}
  /\ \E r \in shown : site' = [site EXCEPT !.obs = site.gen, !.ready = r]
  /\ UNCHANGED << dep, svc, created >>

\* The Service of a Website that is there goes only when its deletion has begun.
CleanUp ==
  /\ site # NoSite /\ svc = site.uid => site.del
  /\ svc' = NoChild
  /\ UNCHANGED << site, dep, created >>

\* And the Website only when no Website's Service is left.
LetGo ==
  /\ site # NoSite /\ site.del
  /\ svc \notin 1..MaxSites
  /\ site' = NoSite
  /\ UNCHANGED << dep, svc, created >>

Acts == Hold \/ MakeDeployment \/ MakeService \/ Report \/ CleanUp \/ LetGo

-----------------------------------------------------------------------------
(* Users, other controllers, the garbage collector                         *)

Create ==
  /\ site = NoSite /\ created < MaxSites
  /\ created' = created + 1
  /\ \E spec \in Specs :
       site' = [uid |-> created + 1, gen |-> 1, spec |-> spec, del |-> FALSE,
                fin |-> FALSE, paused |-> FALSE, obs |-> 0, ready |-> FALSE]
  /\ UNCHANGED << dep, svc >>

Edit ==
  /\ site # NoSite
  /\ \/ \E spec \in Specs \ {site.spec} :
          site' = [site EXCEPT !.spec = spec, !.gen = @ + 1]
     \/ site' = [site EXCEPT !.paused = ~@]
  /\ UNCHANGED << dep, svc, created >>

Delete ==
  /\ site # NoSite /\ ~site.del
  /\ site' = IF site.fin THEN [site EXCEPT !.del = TRUE, !.gen = @ + 1] ELSE NoSite
  /\ UNCHANGED << dep, svc, created >>

Meddle ==
  /\ \/ /\ dep' \in IF dep = NoChild
                     THEN [ctl : {NoOwner, Foreign}, spec : {Drift}, ready : {FALSE}]
                     ELSE {NoChild, [dep EXCEPT !.spec = Drift]}
        /\ UNCHANGED svc
     \/ /\ svc' \in IF svc = NoChild THEN {NoOwner, Foreign} ELSE {NoChild}
        /\ UNCHANGED dep
  /\ UNCHANGED << site, created >>

\* The children of a Website that is gone go, and pods become ready.
Collect ==
  /\ dep # NoChild /\ dep.ctl \in 1..MaxSites
  /\ site # NoSite => site.uid # dep.ctl
  /\ dep' = NoChild
  /\ UNCHANGED << site, svc, created >>

Roll ==
  /\ dep # NoChild
  /\ dep' = [dep EXCEPT !.ready = TRUE]
  /\ UNCHANGED << site, svc, created >>

Others == Create \/ Edit \/ Delete \/ Meddle \/ Collect \/ Roll

Next == (Acts \/ Others \/ UNCHANGED objects) /\ Remembers

Spec == Init /\ [][Next]_vars
=============================================================================
