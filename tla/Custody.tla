------------------------------ MODULE Custody ------------------------------
(***************************************************************************)
(* What betamacsd promises about an artifact it takes custody of: what is   *)
(* installed is whole, a new installation is never older than the promise   *)
(* (the epoch and generation high-waters), and a high-water only ever moves *)
(* to what is installed or, when it is being rewritten, to nothing.         *)
(***************************************************************************)
EXTENDS Naturals

CONSTANT Envelopes   \* records with the fields epoch and authored

VARIABLES
  held,      \* the installed artifact
  promise    \* the high-waters, as a handler would read them

NothingHeld == [epoch |-> 0, authored |-> 0]

\* An envelope without an epoch (0) counts as the epoch already promised.
EpochOf(e) == IF e.epoch = 0 THEN promise.epoch ELSE e.epoch

Init ==
  /\ held = NothingHeld
  /\ promise = NothingHeld

Install ==
  \E e \in Envelopes :
    /\ EpochOf(e) >= promise.epoch /\ e.authored >= promise.authored
    /\ held' = [epoch |-> EpochOf(e), authored |-> e.authored]
    /\ UNCHANGED promise

\* One high-water is set to what is installed, or is lost while it is written.
Promise ==
  /\ \E n \in {0, held.epoch} : promise' = [promise EXCEPT !.epoch = n]
  /\ UNCHANGED held

PromiseGeneration ==
  /\ \E n \in {0, held.authored} : promise' = [promise EXCEPT !.authored = n]
  /\ UNCHANGED held

Next == Install \/ Promise \/ PromiseGeneration

Spec == Init /\ [][Next]_<<held, promise>>

=============================================================================
