---------------------------- MODULE CertRotation ----------------------------
(***************************************************************************)
(* The webhook's certificates: an authority that is registered once with   *)
(* the API server and never served, and the leaf that is served, replaced  *)
(* on a timer beside the handshakes that read it.                          *)
(***************************************************************************)
EXTENDS Naturals

CONSTANTS LeafLifetime,      \* two minutes in the program
          RotateEvery,       \* a quarter of a minute
          AuthorityLifetime, \* a day
          MaxLate,           \* how late the rotation may run after its tick
          MaxFails,          \* how often in a row leafFor may fail
          MaxTime            \* where the clock stops, for TLC

CertAssumption ==
  /\ {LeafLifetime, RotateEvery, AuthorityLifetime, MaxLate, MaxFails, MaxTime}
       \subseteq Nat
  /\ RotateEvery > 0 /\ MaxLate < RotateEvery
  /\ LeafLifetime > (MaxFails + 1) * RotateEvery + MaxLate

VARIABLES now,
          bundle,    \* the authority the API server was told of
          current,   \* the leaf a handshake is answered with
          rotating,  \* the rotation's goroutine lives
          tick,      \* when the ticker fires next
          fails      \* how often leafFor has failed since it last succeeded

vars == << now, bundle, current, rotating, tick, fails >>

\* certAuthority: an authority has a key and an end; keys are numbered.
Authority(key, at) == [key |-> key, notAfter |-> at + AuthorityLifetime]

\* leafFor: a leaf ends when its own lifetime is over, whenever its signer does.
LeafFor(ca, at) == [signer |-> ca.key, notAfter |-> at + LeafLifetime]

\* What a client that knows only the bundle makes of a leaf.
Trusted(leaf, ca) ==
  /\ leaf.signer = ca.key
  /\ now < leaf.notAfter
  /\ now < ca.notAfter

Init ==
  /\ now = 0
  /\ bundle = Authority(0, 0)
  /\ current = LeafFor(bundle, 0)
  /\ rotating = TRUE
  /\ tick = RotateEvery
  /\ fails = 0

\* The ticker holds one tick: the next one is due a period after the last.
Rotate ==
  /\ rotating /\ now >= tick
  /\ current' = LeafFor(bundle, now)
  /\ tick' = tick + RotateEvery
  /\ fails' = 0
  /\ UNCHANGED << now, bundle, rotating >>

\* A slip: the goroutine returns where it should go on.
RotateGivesUp ==
  /\ rotating /\ now >= tick /\ fails < MaxFails
  /\ tick' = tick + RotateEvery
  /\ fails' = fails + 1
  /\ rotating' = FALSE
  /\ UNCHANGED << now, bundle, current >>

\* leafFor fails: the leaf of before is kept and the next tick tries again.
RotateFails ==
  /\ rotating /\ now >= tick /\ fails < MaxFails
  /\ tick' = tick + RotateEvery
  /\ fails' = fails + 1
  /\ UNCHANGED << now, bundle, current, rotating >>

\* Time waits for a rotation that is due no longer than MaxLate.
Tick ==
  /\ now < MaxTime
  /\ rotating => now < tick + MaxLate
  /\ now' = now + 1
  /\ UNCHANGED << bundle, current, rotating, tick, fails >>

Next == Rotate \/ RotateFails \/ Tick

Spec == Init /\ [][Next]_vars

----------------------------------------------------------------------------

\* The state is as certAuthority, leafFor and the ticker make it.
TypeOK ==
  /\ now \in 0..MaxTime
  /\ bundle = Authority(0, 0)
  /\ current \in [signer : {0}, notAfter : LeafLifetime..(MaxTime + LeafLifetime)]
  /\ rotating \in BOOLEAN
  /\ tick \in RotateEvery..(MaxTime + RotateEvery)
  /\ fails \in 0..MaxFails

\* The comment on the rotation, "keeps both halves valid at once": however late
\* the timer runs and however often minting fails, a handshake at any moment of
\* the authority's life is answered with a leaf the bundle vouches for.
ServedLeafTrusted == now < bundle.notAfter => Trusted(current, bundle)

\* "... so the caBundle registered below never has to [change]": for as long as
\* the program runs.
\* The program does not keep it (README).
BundleNeverExpires == Trusted(current, bundle)
=============================================================================
