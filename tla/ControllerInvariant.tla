------------------------ MODULE ControllerInvariant ------------------------
(***************************************************************************)
(* The inductive invariant of Controller: why a controller that acts on a  *)
(* cache, however far behind, acts on the right Website.  The versions of  *)
(* the Website that the controller has yet to act on are the one in the    *)
(* cache and, in order, those still on their way to it.                    *)
(***************************************************************************)
EXTENDS Controller

Index == 0..Len(stream)

Version(i) == IF i = 0 THEN cache ELSE stream[i]

Live(u) == site # NoSite /\ site.uid = u

\* A version of a Website marked deleted, or held open and not deleted.
Deleted(v) == v # NoSite /\ v.del

Held(v) == v # NoSite /\ v.fin /\ ~v.del

\* Uids are given out in order, and only what our finalizer holds can be
\* marked deleted and still be there.
WellFormed(v) == v # NoSite => v.uid <= created /\ (v.del => v.fin)

VersionsWellFormed ==
  /\ \A i \in Index : WellFormed(Version(i))
  /\ WellFormed(site)
  /\ site # NoSite => site.uid = created

\* A Website once held is held until the controller has heard of its deletion.
HeldStays == \A i \in Index : Held(Version(i)) => Live(Version(i).uid) /\ site.fin

\* What the controller has let go it had heard of: everything up to the last
\* version of it is a deleted version of it.
LetGoKnowingly ==
  \A i, j \in Index :
    i <= j /\ Deleted(Version(j)) /\ ~Live(Version(j).uid) =>
      Deleted(Version(i)) /\ Version(i).uid = Version(j).uid

\* A deletion is not taken back.
DeletionStays ==
  \A i \in Index : Deleted(Version(i)) /\ Live(Version(i).uid) =>
    /\ site.del
    /\ \A j \in Index : i <= j =>
         Deleted(Version(j)) /\ Version(j).uid = Version(i).uid

\* While a Website is held, there is no deletion of another one to hear of.
OneAtATime ==
  site # NoSite /\ site.fin =>
    \A i \in Index : Deleted(Version(i)) => Version(i).uid = site.uid

CacheSound == /\ VersionsWellFormed
              /\ HeldStays
              /\ LetGoKnowingly
              /\ DeletionStays
              /\ OneAtATime

ApplySteps    == {"depGet", "depApply", "svcApply"}
AddSteps      == {"addGet", "addUpdate"}
FinalizeSteps == {"finDelete", "finGet", "finUpdate"}
UpdateSteps   == {"addUpdate", "finUpdate", "statusUpdate"}

\* What the pass in progress knows.
ApplyingSound ==
  pc \in ApplySteps => Held(seen) /\ Live(seen.uid) /\ site.fin

AddingSound ==
  pc \in AddSteps =>
    \A i \in Index : Deleted(Version(i)) => Live(Version(i).uid)

FinalizingSound ==
  pc \in FinalizeSteps =>
    /\ Deleted(seen)
    /\ Live(seen.uid) =>
         /\ site.del
         /\ \A i \in Index : Deleted(Version(i)) /\ Version(i).uid = seen.uid
    /\ site # NoSite /\ ~Live(seen.uid) => ~site.fin

UpdatingSound ==
  /\ pc \in UpdateSteps <=> read # NoSite
  /\ pc \in UpdateSteps /\ ~moved => read = site
  /\ pc = "addUpdate" => ~read.fin

\* The Service of a Website that is there is one our finalizer protects, and
\* finalize has none left when it lets the Website go.
ServiceSound ==
  /\ svc \in Uids => svc <= created
  /\ site # NoSite /\ svc = site.uid => site.fin
  /\ pc \in {"finGet", "finUpdate"} => svc \notin Uids

DownSound == pc = "down" => cache = NoSite /\ stream = << >>

SeenSound == WellFormed(seen)

PassSound == /\ SeenSound
             /\ ApplyingSound
             /\ AddingSound
             /\ FinalizingSound
             /\ UpdatingSound
             /\ ServiceSound
             /\ DownSound

\* With it: type correctness, HeldWhileApplying and FinalizeSparesTheLiving.
IInv == TypeOK /\ CacheSound /\ PassSound
=============================================================================
