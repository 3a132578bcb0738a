------------------------- MODULE CalibrationTrust -------------------------
(***************************************************************************)
(* Trust in operator calibration packages: the detached signatures,        *)
(* reviewer decisions, revocations and promotions that decide whether a    *)
(* package may be activated and may authorize a final report, as           *)
(* CalibrationPackageTrustApplicationService keeps them in files, with the *)
(* operator-package service that asks it for decisions.                    *)
(*                                                                         *)
(* Every browser session has services of its own and no lock covers the    *)
(* files, so a call is a sequence of reads and writes that interleave with *)
(* the calls of the other sessions.  A write replaces one file atomically. *)
(* A call that records one immutable file (a signature, a review, a        *)
(* revocation) is one action; the decisions one reviewer submits for one   *)
(* package are taken not to overlap.                                       *)
(***************************************************************************)
EXTENDS Integers, Sequences, FiniteSets

CONSTANTS Packages,       \* fingerprints of the imported operator packages
          NoPackage,      \* no package is active
          Rights,         \* the manifest's rights: [until, final]
          Registry,       \* the trust registry: key -> [environments, until]
          Envelopes,      \* the detached signatures that verify
          Signed,         \* what an envelope says: [package, key, until]
          Reviewers,      \* a reviewer acting in one role
          RoleOf,         \* that role
          Sessions,       \* browser sessions
          Marks,          \* how the hashes of equal timestamps compare
          MaxTime,        \* bound on the clock, in seconds
          Dates,          \* the dates callers give: decided_at, effective_at
          MaxReviews,     \* bound on the decisions each reviewer writes
          MaxRevocations  \* bound on the revocations written

Environments == <<"development", "validation", "production">>
EnvironmentSet == {Environments[i] : i \in DOMAIN Environments}
Index(env) == CHOOSE i \in DOMAIN Environments : Environments[i] = env

Roles == {"technical_reviewer", "data_governance_reviewer"}
RequiredReviews == [development |-> {},
                    validation  |-> {"technical_reviewer"},
                    production  |-> Roles]

Keys == DOMAIN Registry
Times == 0..MaxTime
Deadlines == Nat

ASSUME ConstantsAssumption ==
    /\ NoPackage \notin Packages
    /\ MaxTime \in Nat /\ MaxRevocations \in Nat
    /\ MaxReviews \in [Reviewers -> Nat]
    /\ Marks \subseteq Nat /\ Dates \subseteq Nat
    /\ Rights \in [Packages -> [until : Deadlines, final : BOOLEAN]]
    /\ Registry \in [Keys -> [environments : SUBSET EnvironmentSet,
                              until : Deadlines]]
    /\ Signed \in [Envelopes -> [package : Packages, key : Keys,
                                 until : Deadlines]]
    /\ RoleOf \in [Reviewers -> Roles]

VARIABLES
    now,          \* the clock, in the seconds utc_now_iso keeps
    signatures,   \* signatures/: the envelopes imported
    reviews,      \* reviews/: the decision records, in the order written
    revocations,  \* revocations/: the records, by target and effective_at
    promotions,   \* promotions/: the immutable promotion records
    environment,  \* environments/<package>.json: environment, promotion_id
    active,       \* the package the project's active file names
    authorized,   \* final authorizations: the package and the promotion cited
    calls,        \* per session, the call that is running
    standing      \* per session, what has spoken against the call since its
                  \* decision took its reference time (no code reads this)

records == <<signatures, reviews, revocations>>
vars == <<now, records, promotions, environment, active, authorized, calls,
          standing>>

Targets == Packages \cup Envelopes \cup Keys
Review == [package : Packages, reviewer : Reviewers,
           decision : {"approve", "reject"}, at : Times \cup Dates,
           previous : Nat]
Promotion == [package : Packages, source : EnvironmentSet,
              target : EnvironmentSet, at : Times, mark : Marks]
NoPromotion == <<>>
State == [environment : EnvironmentSet, promotion : Promotion \cup {NoPromotion}]
Development == [environment |-> "development", promotion |-> NoPromotion]

Idle == [step |-> "idle"]
Call == [step : {"state", "signature", "reviews", "evidence", "record",
                 "switch", "write"},
         op : {"promote", "activate", "authorize"},
         package : Packages,
         source : EnvironmentSet,      \* what promote read as current
         requested : EnvironmentSet,   \* the environment asked about
         ref : Times,                  \* the decision's reference time
         state : State,                \* the environment state it read
         promotion : Promotion \cup {NoPromotion}]
Running(s) == calls[s].step # "idle"
IsFinal(c) == c.op = "authorize"

-----------------------------------------------------------------------------
(* Reading the trust files                                                 *)

IsRevoked(target, at) ==
    \E r \in revocations : r.target = target /\ r.from <= at

KeyScopeAllows(k, env, at) ==
    env \in Registry[k].environments /\ at < Registry[k].until

\* _select_valid_signature finds one exactly when some candidate passes
ValidSignature(e, p, env, at) ==
    /\ Signed[e].package = p
    /\ KeyScopeAllows(Signed[e].key, env, at)
    /\ ~IsRevoked(p, at)
    /\ ~IsRevoked(Signed[e].key, at)
    /\ ~IsRevoked(e, at)
    /\ at < Signed[e].until

\* the terminal records of a reviewer's chain, and the one list_reviews keeps
Chain(p, r) ==
    {i \in DOMAIN reviews : reviews[i].package = p /\ reviews[i].reviewer = r}
\* Mutant: the latest decision by its timestamp, whatever the chain says.
TerminalAll(p, r) == Chain(p, r)

Terminal(p, r) ==
    Chain(p, r) \ {reviews[i].previous : i \in Chain(p, r)}
Latest(p, r) ==
    CHOOSE i \in Terminal(p, r) :
        \A j \in Terminal(p, r) : reviews[j].at <= reviews[i].at
Decision(p, r) ==
    IF Chain(p, r) = {} THEN "none" ELSE reviews[Latest(p, r)].decision

\* _latest_promotion sorts by environment, promoted_at and promotion_id
NotAfter(a, b) ==
    \/ Index(a.target) < Index(b.target)
    \/ a.target = b.target /\ a.at < b.at
    \/ a.target = b.target /\ a.at = b.at /\ a.mark <= b.mark
LatestPromotion(p) ==
    LET mine == {q \in promotions : q.package = p}
    IN  IF mine = {} THEN NoPromotion
        ELSE CHOOSE q \in mine : \A o \in mine : NotAfter(o, q)

-----------------------------------------------------------------------------
(* What the four reads of a decision look for                              *)

SignaturePasses(c) ==
    /\ c.ref < Rights[c.package].until
    /\ IsFinal(c) => Rights[c.package].final
    /\ ~IsRevoked(c.package, c.ref)
    /\ \E e \in signatures : ValidSignature(e, c.package, c.requested, c.ref)

ReviewsPass(c) ==
    /\ \A r \in Reviewers : Decision(c.package, r) # "reject"
    /\ \A role \in RequiredReviews[c.requested] :
          \E r \in Reviewers :
              RoleOf[r] = role /\ Decision(c.package, r) = "approve"

EvidencePasses(c) ==
    /\ c.state.environment # "development" =>
          LET latest == LatestPromotion(c.package)
          IN  /\ latest # NoPromotion
              /\ latest.target = c.state.environment
              /\ latest = c.state.promotion
    /\ IsFinal(c) /\ c.requested = "production" =>
          c.state.environment = "production"

-----------------------------------------------------------------------------
(* What speaks against a call, from what was written and not from how the  *)
(* code looks it up: the last decision a reviewer wrote is the reviewer's  *)
(* word, whatever its timestamp.                                           *)
LastWord(p, r) ==
    LET mine == Chain(p, r)
    IN  IF mine = {} THEN "none"
        ELSE reviews[CHOOSE i \in mine : \A j \in mine : j <= i].decision

Withdrawn(c, target) ==
    \E r \in revocations : r.target = target /\ r.from <= c.ref

Unsigned(c) ==
    \A e \in signatures :
        LET key == Signed[e].key
        IN  \/ Signed[e].package # c.package
            \/ c.requested \notin Registry[key].environments
            \/ c.ref >= Registry[key].until \/ c.ref >= Signed[e].until
            \/ Withdrawn(c, e) \/ Withdrawn(c, key)

Obstacles(c) ==
    UNION {
      {<<"rejected", r>> : r \in {x \in Reviewers : LastWord(c.package, x) = "reject"}},
      {<<"unapproved", role>> : role \in {x \in RequiredReviews[c.requested] :
          \A r \in Reviewers :
              RoleOf[r] = x => LastWord(c.package, r) # "approve"}},
      {<<"revoked", p>> : p \in {x \in {c.package} : Withdrawn(c, x)}},
      {<<"unsigned", p>> : p \in {x \in {c.package} : Unsigned(c)}},
      {<<"no rights", p>> : p \in {x \in {c.package} :
          c.ref >= Rights[x].until \/ (IsFinal(c) /\ ~Rights[x].final)}}}

\* Part of every action: what is against a call and was since ReadState.
Watch ==
    standing' = [s \in Sessions |->
        IF calls'[s].step \in {"idle", "state"} THEN {}
        ELSE IF calls[s].step = "state" THEN Obstacles(calls[s])'
        ELSE {o \in standing[s] : (o \in Obstacles(calls[s]))'}]

-----------------------------------------------------------------------------
Init ==
    /\ now = 0
    /\ signatures = {} /\ reviews = <<>> /\ revocations = {}
    /\ promotions = {}
    /\ environment = [p \in Packages |-> Development]
    /\ active = NoPackage
    /\ authorized = {}
    /\ calls = [s \in Sessions |-> Idle]
    /\ standing = [s \in Sessions |-> {}]

\* Time passes.
Tick ==
    /\ now < MaxTime
    /\ now' = now + 1
    /\ UNCHANGED <<records, promotions, environment, active, authorized, calls>>
    /\ Watch

\* import_detached_signature: the key must be good for validation now.
ImportSignature(e) ==
    /\ KeyScopeAllows(Signed[e].key, "validation", now)
    /\ now < Signed[e].until
    /\ signatures' = signatures \cup {e}
    /\ UNCHANGED <<now, reviews, revocations, promotions, environment, active,
                   authorized, calls>>
    /\ Watch

\* submit_review: the record links to the reviewer's latest one; decided_at is
\* the clock or a date the caller gives.
SubmitReview(p, r, decision, at) ==
    /\ Cardinality({i \in DOMAIN reviews : reviews[i].reviewer = r})
          < MaxReviews[r]
    /\ reviews' = Append(reviews,
          [package |-> p, reviewer |-> r, decision |-> decision, at |-> at,
           previous |-> IF Chain(p, r) = {} THEN 0 ELSE Latest(p, r)])
    /\ UNCHANGED <<now, signatures, revocations, promotions, environment,
                   active, authorized, calls>>
    /\ Watch

\* revoke: effective now or at a date the caller gives; a signature must have been imported.
Revoke(target, from) ==
    /\ Cardinality(revocations) < MaxRevocations
    /\ target \in Envelopes => target \in signatures
    /\ revocations' = revocations \cup {[target |-> target, from |-> from]}
    /\ UNCHANGED <<now, signatures, reviews, promotions, environment, active,
                   authorized, calls>>
    /\ Watch

Start(s, op, p, source, requested) ==
    calls' = [calls EXCEPT ![s] =
        [step |-> "state", op |-> op, package |-> p, source |-> source,
         requested |-> requested, ref |-> 0, state |-> Development,
         promotion |-> NoPromotion]]

\* Mutant: any later environment will do.
PromoteAhead(s, p, target) ==
    /\ ~Running(s)
    /\ LET current == environment[p].environment
       IN  /\ Index(target) > Index(current)
           /\ Start(s, "promote", p, current, target)
    /\ UNCHANGED <<now, records, promotions, environment, active, authorized>>
    /\ Watch

\* promote reads the current environment and accepts only the next one.
Promote(s, p, target) ==
    /\ ~Running(s)
    /\ LET current == environment[p].environment
       IN  /\ Index(target) = Index(current) + 1
           /\ Start(s, "promote", p, current, target)
    /\ UNCHANGED <<now, records, promotions, environment, active, authorized>>
    /\ Watch

\* activate_package asks for a production decision with final_report=False.
Activate(s, p) ==
    /\ ~Running(s)
    /\ Start(s, "activate", p, "development", "production")
    /\ UNCHANGED <<now, records, promotions, environment, active, authorized>>
    /\ Watch

\* authorize_methods_for_export, for a final report with the active package.
Authorize(s) ==
    /\ ~Running(s)
    /\ active # NoPackage
    /\ Start(s, "authorize", active, "development", "production")
    /\ UNCHANGED <<now, records, promotions, environment, active, authorized>>
    /\ Watch

\* A read of the decision that passes moves the call on; one that does not
\* ends it: the reasons are collected and the call raises.
Check(s, step, passes, next) ==
    /\ calls[s].step = step
    /\ calls' = [calls EXCEPT ![s] =
                     IF passes THEN [@ EXCEPT !.step = next] ELSE Idle]

\* evaluate reads the environment state and takes its reference time.
ReadState(s) ==
    /\ calls[s].step = "state"
    /\ calls' = [calls EXCEPT ![s].step = "signature", ![s].ref = now,
                              ![s].state = environment[calls[s].package]]
    /\ UNCHANGED <<now, records, promotions, environment, active, authorized>>
    /\ Watch

\* evaluate reads rights, revocations and signatures.
ReadSignature(s) ==
    /\ Check(s, "signature", SignaturePasses(calls[s]), "reviews")
    /\ UNCHANGED <<now, records, promotions, environment, active, authorized>>
    /\ Watch

\* evaluate reads the reviews.
ReadReviews(s) ==
    /\ Check(s, "reviews", ReviewsPass(calls[s]), "evidence")
    /\ UNCHANGED <<now, records, promotions, environment, active, authorized>>
    /\ Watch

\* evaluate reads the promotions; promote then stamps its new record, whose
\* hash orders it among those of the same second.
ReadEvidence(s) ==
    LET c == calls[s]
    IN  /\ c.step = "evidence"
        /\ \/ /\ ~EvidencePasses(c)
              /\ calls' = [calls EXCEPT ![s] = Idle]
           \/ /\ EvidencePasses(c) /\ c.op # "promote"
              /\ calls' = [calls EXCEPT ![s].step = "write"]
           \/ /\ EvidencePasses(c) /\ c.op = "promote"
              /\ \E mark \in Marks :
                    calls' = [calls EXCEPT ![s].step = "record",
                        ![s].promotion =
                            [package |-> c.package, source |-> c.source,
                             target |-> c.requested, at |-> now,
                             mark |-> mark]]
        /\ UNCHANGED <<now, records, promotions, environment, active,
                       authorized>>
        /\ Watch

\* promote writes the record, unless the same one is there already.
WriteRecord(s) ==
    /\ calls[s].step = "record"
    /\ promotions' = promotions \cup {calls[s].promotion}
    /\ calls' = [calls EXCEPT ![s].step = "switch"]
    /\ UNCHANGED <<now, records, environment, active, authorized>>
    /\ Watch

\* Mutant: the call's promotion record outlives it.
WriteStateKeepsRecord(s) ==
    /\ calls[s].step = "switch"
    /\ environment' = [environment EXCEPT ![calls[s].package] =
                           [environment |-> calls[s].requested,
                            promotion |-> calls[s].promotion]]
    /\ calls' = [calls EXCEPT ![s].step = "idle"]
    /\ UNCHANGED <<now, records, promotions, active, authorized>>
    /\ Watch

\* promote then overwrites the package's environment state.
WriteState(s) ==
    /\ calls[s].step = "switch"
    /\ environment' = [environment EXCEPT ![calls[s].package] =
                           [environment |-> calls[s].requested,
                            promotion |-> calls[s].promotion]]
    /\ calls' = [calls EXCEPT ![s] = Idle]
    /\ UNCHANGED <<now, records, promotions, active, authorized>>
    /\ Watch

\* activate_package overwrites the active file.
WriteActive(s) ==
    /\ calls[s].step = "write" /\ calls[s].op = "activate"
    /\ active' = calls[s].package
    /\ calls' = [calls EXCEPT ![s] = Idle]
    /\ UNCHANGED <<now, records, promotions, environment, authorized>>
    /\ Watch

\* issue_authorization_package writes the authorization with the promotion
\* the decision found latest: the one the environment state cited.
WriteAuthorization(s) ==
    /\ calls[s].step = "write" /\ calls[s].op = "authorize"
    /\ authorized' = authorized \cup {[package |-> calls[s].package,
                                       promotion |-> calls[s].state.promotion]}
    /\ calls' = [calls EXCEPT ![s] = Idle]
    /\ UNCHANGED <<now, records, promotions, environment, active>>
    /\ Watch

\* deactivate_package deletes the active file.
Deactivate ==
    /\ active' = NoPackage
    /\ UNCHANGED <<now, records, promotions, environment, authorized, calls>>
    /\ Watch

\* A read or a write raises, or the application is killed.
Fail(s) ==
    /\ Running(s)
    /\ calls' = [calls EXCEPT ![s] = Idle]
    /\ UNCHANGED <<now, records, promotions, environment, active, authorized>>
    /\ Watch

Next ==
    \/ Tick
    \/ \E e \in Envelopes : ImportSignature(e)
    \/ \E p \in Packages, r \in Reviewers, at \in Dates \cup {now} :
          \E decision \in {"approve", "reject"} : SubmitReview(p, r, decision, at)
    \/ \E target \in Targets, from \in Dates \cup {now} : Revoke(target, from)
    \/ Deactivate
    \/ \E s \in Sessions :
          \/ \E p \in Packages, target \in EnvironmentSet : Promote(s, p, target)
          \/ \E p \in Packages : Activate(s, p)
          \/ Authorize(s)
          \/ ReadState(s) \/ ReadSignature(s) \/ ReadReviews(s)
          \/ ReadEvidence(s)
          \/ WriteRecord(s) \/ WriteState(s)
          \/ WriteActive(s) \/ WriteAuthorization(s)
          \/ Fail(s)

Spec == Init /\ [][Next]_vars

-----------------------------------------------------------------------------
(* Properties                                                              *)

\* Every variable has its type; a call holds a promotion record exactly
\* while promote writes it and the state.
TypeOK ==
    /\ now \in Times
    /\ signatures \subseteq Envelopes
    /\ reviews \in Seq(Review)
    /\ revocations \subseteq [target : Targets, from : Times \cup Dates]
    /\ promotions \subseteq Promotion
    /\ environment \in [Packages -> State]
    /\ active \in Packages \cup {NoPackage}
    /\ authorized \subseteq [package : Packages, promotion : Promotion]
    /\ \A s \in Sessions :
          /\ calls[s] \in Call \cup {Idle}
          /\ Running(s) => (calls[s].promotion # NoPromotion
                              <=> calls[s].step \in {"record", "switch"})

\* A call that has its decision had nothing against it all the while from the
\* decision's reference time to its end: no reviewer whose last word was a
\* rejection, no missing approval, no revocation in force, a signature, the
\* rights.  It may only have missed what was said meanwhile, although evaluate
\* reads four kinds of file one after the other while others write them.
NoStandingObstacle ==
    \A s \in Sessions :
        calls[s].step \in {"record", "switch", "write"} => standing[s] = {}

\* Every production promotion, and every final authorization, rests on an
\* immutable record of the package's promotion to validation that is no later;
\* and a state file that left development names a record that was written.
ChainOfPromotions ==
    LET Backed(q) == \E v \in promotions :
            /\ v.package = q.package /\ v.target = "validation" /\ v.at <= q.at
    IN  /\ \A q \in promotions : q.target = "production" => Backed(q)
        /\ \A a \in authorized :
              /\ a.promotion \in promotions
              /\ a.promotion.package = a.package
              /\ a.promotion.target = "production"
              /\ Backed(a.promotion)
        /\ \A p \in Packages : environment[p] # Development =>
              /\ environment[p].promotion \in promotions
              /\ environment[p].promotion.package = p
              /\ environment[p].promotion.target = environment[p].environment

\* The active package was promoted to production: the test of the strict
\* operator boundary is named for it (activation is blocked until production
\* promotion) and the user guide asks for it.
ActiveWasPromoted ==
    active # NoPackage =>
        \E q \in promotions : q.package = active /\ q.target = "production"
=============================================================================
