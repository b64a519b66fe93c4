-------------------------- MODULE MCEnvelopeCustody --------------------------
(* A small instance of EnvelopeCustody: two connections, two generations.       *)
EXTENDS EnvelopeCustody

CONSTANTS t1, t2

TwoHandlers == {t1, t2}

Env(epoch, authored, pin) ==
  [epoch |-> epoch, authored |-> authored, pin |-> pin, whole |-> TRUE]

TwoEnvelopes == {Env(1, 1, TRUE), Env(2, 2, FALSE)}
=============================================================================
