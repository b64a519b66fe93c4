---------------------------- MODULE Verification ----------------------------
(***************************************************************************)
(* What makes an envelope acceptable (envelope.rs Verifier), and the two     *)
(* places that ask: the daemon, before it takes custody, and the agent, when *)
(* it starts and when the file changes (main.rs load_managed, run,           *)
(* spawn_managed_watch).  Certificates expire between the two.               *)
(*                                                                          *)
(* A certificate is who it names as subject and issuer, whose key signed it, *)
(* whether it is a CA, whether it may sign code, and its validity.  Parsing, *)
(* algorithms and encodings are left out: bytes that do not parse are        *)
(* refused.  The steps within custody are EnvelopeCustody's.                 *)
(***************************************************************************)
EXTENDS Integers, Sequences, SequencesExt

CONSTANTS
  Certificate,     \* the certificates
  Cert,            \* what each says
  PinnedRoots,     \* the pinned roots, in order
  Document,        \* the envelopes
  Doc,             \* and what each says
  AuthorPinned,    \* an author key is pinned
  NoEpoch,         \* the epoch of a manifest that has none
  Nothing,         \* no envelope
  Horizon          \* bound on time

MaxDepth == 5

ASSUME VerificationAssumption ==
  /\ \A c \in Certificate :
       /\ Cert[c].signer \in Certificate /\ Cert[c].ca \in BOOLEAN
       /\ Cert[c].codeSigning \in BOOLEAN /\ {Cert[c].from, Cert[c].until} \subseteq Nat
  /\ PinnedRoots \in Seq(Certificate) /\ PinnedRoots # <<>>
  /\ \A e \in Document :
       /\ Doc[e].leaf \in Certificate /\ Doc[e].chain \in Seq(Certificate)
       /\ Doc[e].epoch \in Nat \union {NoEpoch}
       /\ {Doc[e].signed, Doc[e].bound, Doc[e].ours, Doc[e].authored} \subseteq BOOLEAN
  /\ NoEpoch \notin Nat /\ Nothing \notin Document /\ Horizon \in Nat

VARIABLES
  now,             \* the day
  custody,         \* the daemon's envelope.json
  highEpoch,       \* the epoch it has accepted
  agentUp,
  seen,            \* the envelope the agent's watcher last noticed
  policy,          \* the envelope the agent's policy is from; Nothing is the
                   \* built-in policy
  since,           \* history: when the policy was verified
  topEpoch         \* history: the largest epoch ever in custody

verifyVars == <<now, custody, highEpoch, agentUp, seen, policy, since, topEpoch>>

VerifyInit ==
  /\ now = 0 /\ custody = Nothing /\ highEpoch = 0
  /\ agentUp = FALSE /\ seen = Nothing /\ policy = Nothing /\ since = 0 /\ topEpoch = 0

-----------------------------------------------------------------------------
(* The verifier *)

InDate(c) == Cert[c].from <= now /\ now <= Cert[c].until

SignedBy(c, issuer) == Cert[c].signer = issuer

\* Mutant: any certificate may issue others.
MayIssueAny(issuer) == TRUE

MayIssue(issuer) == Cert[issuer].ca

\* The first certificate that has the name of the issuer of c.
IssuersIn(c, certs) == {i \in DOMAIN certs : Cert[certs[i]].subject = Cert[c].issuer}

IssuerIn(c, certs) ==
  certs[CHOOSE i \in IssuersIn(c, certs) : \A j \in IssuersIn(c, certs) : i <= j]

\* One link of the walk from the leaf towards a root; a root of that name ends it.
Link(at, chain) ==
  CASE ~InDate(at.cert) -> [at EXCEPT !.is = "refused"]
    [] InDate(at.cert) /\ IssuersIn(at.cert, PinnedRoots) # {} ->
         LET root == IssuerIn(at.cert, PinnedRoots)
         IN [at EXCEPT !.is = IF InDate(root) /\ SignedBy(at.cert, root)
                              THEN "accepted" ELSE "refused"]
    [] InDate(at.cert) /\ IssuersIn(at.cert, PinnedRoots) = {}
         /\ IssuersIn(at.cert, chain) # {} ->
         LET issuer == IssuerIn(at.cert, chain)
         IN [cert |-> issuer,
             is   |-> IF MayIssue(issuer) /\ SignedBy(at.cert, issuer)
                      THEN "open" ELSE "refused"]
    [] OTHER -> [at EXCEPT !.is = "refused"]

VerifyChain(leaf, chain) ==
  LET walk[d \in 0..MaxDepth] ==
        IF d = 0 THEN [cert |-> leaf, is |-> "open"]
        ELSE IF walk[d - 1].is = "open" THEN Link(walk[d - 1], chain) ELSE walk[d - 1]
  IN walk[MaxDepth].is = "accepted"

\* verify, with the epoch the caller has accepted so far.
Verifies(e, lastEpoch) ==
  /\ VerifyChain(Doc[e].leaf, Doc[e].chain)
  /\ Cert[Doc[e].leaf].codeSigning
  /\ Doc[e].signed /\ Doc[e].ours /\ Doc[e].bound
  /\ Doc[e].epoch # NoEpoch => Doc[e].epoch >= lastEpoch
  /\ AuthorPinned => Doc[e].authored

Larger(epoch, lastEpoch) == IF epoch = NoEpoch \/ epoch < lastEpoch THEN lastEpoch ELSE epoch

-----------------------------------------------------------------------------
(* Those who ask *)

NextDay ==
  /\ now < Horizon /\ now' = now + 1
  /\ UNCHANGED <<custody, highEpoch, agentUp, seen, policy, since, topEpoch>>

\* An envelope is offered to the daemon.
Offer(e) ==
  /\ Verifies(e, highEpoch)
  /\ custody' = e
  /\ highEpoch' = Larger(Doc[e].epoch, highEpoch)
  /\ topEpoch' = Larger(Doc[e].epoch, topEpoch)
  /\ UNCHANGED <<now, agentUp, seen, policy, since>>

Follow(e) ==
  IF e # Nothing /\ Verifies(e, 0) THEN policy' = e /\ since' = now
  ELSE UNCHANGED <<policy, since>>

\* The agent starts with what is in custody, or else with the built-in policy.
StartAgent ==
  /\ ~agentUp /\ agentUp' = TRUE
  /\ seen' = custody
  /\ \/ custody # Nothing /\ Verifies(custody, 0) /\ Follow(custody)
     \/ ~(custody # Nothing /\ Verifies(custody, 0)) /\ policy' = Nothing /\ since' = now
  /\ UNCHANGED <<now, custody, highEpoch, topEpoch>>

\* The watcher sees another envelope; one that it refuses changes nothing.
WatchEnvelope ==
  /\ agentUp /\ seen # custody
  /\ seen' = custody
  /\ Follow(custody)
  /\ UNCHANGED <<now, custody, highEpoch, agentUp, topEpoch>>

StopAgent ==
  /\ agentUp /\ agentUp' = FALSE
  /\ UNCHANGED <<now, custody, highEpoch, seen, policy, since, topEpoch>>

VerifyNext ==
  \/ NextDay \/ StartAgent \/ WatchEnvelope \/ StopAgent
  \/ \E e \in Document : Offer(e)

VerifySpec == VerifyInit /\ [][VerifyNext]_verifyVars

-----------------------------------------------------------------------------
(* Properties *)

\* Type invariant.
VerifyTypeOK ==
  /\ now \in 0..Horizon /\ since \in 0..now /\ {highEpoch, topEpoch} \subseteq Nat
  /\ {custody, seen, policy} \subseteq Document \union {Nothing}
  /\ agentUp \in BOOLEAN

\* Certificates from the leaf to a pinned root, each in date on the day, signed
\* by the next and, but for the leaf, a CA; reference definition.
Anchored(leaf, chain, day) ==
  LET certs == {leaf} \union {chain[i] : i \in DOMAIN chain} \union
               {PinnedRoots[i] : i \in DOMAIN PinnedRoots}
  IN \E n \in 2..(MaxDepth + 1) : \E path \in [1..n -> certs] :
       /\ path[1] = leaf /\ \E i \in DOMAIN PinnedRoots : path[n] = PinnedRoots[i]
       /\ \A k \in 1..n : Cert[path[k]].from <= day /\ day <= Cert[path[k]].until
       /\ \A k \in 1..(n - 1) : Cert[path[k]].signer = path[k + 1]
       /\ \A k \in 2..(n - 1) : Cert[path[k]].ca

\* A policy that is not the built-in one was, on the day the agent took it, signed
\* for this app by a code signing key that CAs link to a pinned root, and by the
\* author if one is pinned. What is in custody has the largest epoch that ever
\* was, or none. (envelope.rs: anchors-only path validation; rollback refusal)
PolicyIsGenuine ==
  /\ policy # Nothing =>
       /\ Anchored(Doc[policy].leaf, Doc[policy].chain, since)
       /\ Cert[Doc[policy].leaf].codeSigning
       /\ Doc[policy].signed /\ Doc[policy].ours /\ Doc[policy].bound
       /\ AuthorPinned => Doc[policy].authored
  /\ custody # Nothing => Doc[custody].epoch \in {NoEpoch, topEpoch}

\* What the daemon accepted the agent can still apply when it starts.
\* (envelope.rs: an expiry made a valid config un-appliable)
AcceptedStaysApplicable == custody # Nothing => Verifies(custody, 0)
=============================================================================
