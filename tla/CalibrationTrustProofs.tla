----------------------- MODULE CalibrationTrustProofs -----------------------
(***************************************************************************)
(* What holds for any number of sessions that promote, activate and        *)
(* authorize at once, any packages, reviewers, signatures, revocations,    *)
(* dates and hashes, and any failures.                                     *)
(*                                                                         *)
(* Production rests on validation.  promote writes its record before the   *)
(* state file, so that a state file which left development always cites a  *)
(* written record.  No write puts a package back into development; a call  *)
(* that found validation or production when it started therefore finds a   *)
(* cited record when evaluate reads the state, and that record, or the one *)
(* it rests on itself, is the promotion to validation the new record needs.*)
(* The reviews, signatures and revocations play no part.                   *)
(*                                                                         *)
(* No decision passes over an obstacle that stood all along.  Two facts    *)
(* carry it.  The chain of a reviewer's decisions has one end, and that is *)
(* the last decision written, whatever dates the records bear              *)
(* (LinearChains); so the lookup of the code finds the reviewer's last     *)
(* word.  And what stands against a call can only shrink while it runs: a  *)
(* read of evaluate that passes excludes the obstacles of its kind at that *)
(* moment, hence any that stood before and still would (Cleared).          *)
(***************************************************************************)
EXTENDS CalibrationTrust, TLAPS

\* Production record q rests on a validation record in ps.
Backed(q, ps) == \E v \in ps :
    /\ v.package = q.package /\ v.target = "validation" /\ v.at <= q.at

Cites(state, p, ps) ==
    /\ state.promotion \in ps
    /\ state.promotion.package = p
    /\ state.promotion.target = state.environment

-----------------------------------------------------------------------------
(* What a running call c has made sure of, when the records are ps, the    *)
(* state files env and the time t.                                         *)

Asks(c, env) ==
    /\ c.op = "promote" => c.requested # "development"
    /\ c.op = "promote" /\ c.requested = "production"
          => env[c.package] # Development
    /\ c.op = "authorize" => c.requested = "production"

HasRead(c, ps) ==
    c.step # "state" =>
        /\ c.state # Development => Cites(c.state, c.package, ps)
        /\ c.op = "promote" /\ c.requested = "production" => c.state # Development

MayRecord(c, ps, t) ==
    c.step \in {"record", "switch"} =>
        /\ c.op = "promote"
        /\ c.promotion \in Promotion
        /\ c.promotion.package = c.package
        /\ c.promotion.target = c.requested
        /\ c.promotion.at <= t
        /\ c.requested = "production" => Backed(c.promotion, ps)
        /\ c.step = "switch" => c.promotion \in ps

MayAuthorize(c) ==
    c.step = "write" /\ c.op = "authorize" => c.state.environment = "production"

Sound(c, ps, env, t) ==
    /\ Asks(c, env) /\ HasRead(c, ps) /\ MayRecord(c, ps, t) /\ MayAuthorize(c)

-----------------------------------------------------------------------------
(* The inductive invariant.                                                *)

Types ==
    /\ now \in Times
    /\ promotions \subseteq Promotion
    /\ environment \in [Packages -> State]
    /\ active \in Packages \cup {NoPackage}
    /\ calls \in [Sessions -> Call \cup {Idle}]

RecordsPast ==
    \A q \in promotions : q.at <= now /\ q.target # "development"

RecordsBacked ==
    \A q \in promotions : q.target = "production" => Backed(q, promotions)

StatesCite ==
    \A p \in Packages :
        environment[p] # Development => Cites(environment[p], p, promotions)

AuthorizationsCite ==
    \A a \in authorized :
        /\ a.promotion \in promotions
        /\ a.promotion.package = a.package
        /\ a.promotion.target = "production"

CallsSound ==
    \A s \in Sessions : Running(s) => Sound(calls[s], promotions, environment, now)

ChainInv ==
    /\ Types
    /\ RecordsPast /\ RecordsBacked
    /\ StatesCite /\ AuthorizationsCite
    /\ CallsSound

-----------------------------------------------------------------------------
(* Lemmas about the operators                                              *)

\* Index counts the environments in the order of promotion.
LEMMA IndexValues ==
    /\ Index("development") = 1
    /\ Index("validation") = 2
    /\ Index("production") = 3
<1>1. /\ DOMAIN Environments = 1..3
      /\ Environments[1] = "development"
      /\ Environments[2] = "validation"
      /\ Environments[3] = "production"
  BY DEF Environments
<1>2. \A i \in 1..3 : i = 1 \/ i = 2 \/ i = 3
  OBVIOUS
<1> QED BY <1>1, <1>2 DEF Index

\* The environments are the three that promote knows.
LEMMA EnvironmentValues == EnvironmentSet = {"development", "validation", "production"}
<1>1. /\ DOMAIN Environments = {1, 2, 3}
      /\ Environments[1] = "development"
      /\ Environments[2] = "validation"
      /\ Environments[3] = "production"
  BY DEF Environments
<1> QED BY <1>1 DEF EnvironmentSet

\* promote asks for the next environment: never for development, and for
\* production only from validation.
LEMMA NextEnvironment ==
    ASSUME NEW a \in EnvironmentSet, NEW b \in EnvironmentSet,
           Index(b) = Index(a) + 1
    PROVE  /\ b # "development"
           /\ b = "production" => a = "validation"
BY IndexValues, EnvironmentValues

\* More records keep a production record backed.
LEMMA BackedGrows ==
    ASSUME NEW ps, NEW more, ps \subseteq more, NEW q, Backed(q, ps)
    PROVE  Backed(q, more)
BY DEF Backed

\* A call stays sound while records are added, state files leave development
\* and time passes.
LEMMA SoundStays ==
    ASSUME NEW c \in Call,
           NEW ps, NEW more, ps \subseteq more,
           NEW env, NEW env2,
           \A p \in Packages : env[p] # Development => env2[p] # Development,
           NEW t \in Nat, NEW t2 \in Nat, t <= t2,
           Sound(c, ps, env, t)
    PROVE  Sound(c, more, env2, t2)
<1>1. c.package \in Packages
  BY DEF Call
<1>2. Asks(c, env2)
  BY <1>1 DEF Sound, Asks
<1>3. HasRead(c, more)
  BY DEF Sound, HasRead, Cites
<1>4. MayRecord(c, more, t2)
  <2> SUFFICES ASSUME c.step \in {"record", "switch"}
               PROVE  /\ c.op = "promote"
                      /\ c.promotion \in Promotion
                      /\ c.promotion.package = c.package
                      /\ c.promotion.target = c.requested
                      /\ c.promotion.at <= t2
                      /\ c.requested = "production" => Backed(c.promotion, more)
                      /\ c.step = "switch" => c.promotion \in more
    BY DEF MayRecord
  <2>1. /\ c.op = "promote"
        /\ c.promotion \in Promotion
        /\ c.promotion.package = c.package
        /\ c.promotion.target = c.requested
        /\ c.promotion.at <= t
        /\ c.requested = "production" => Backed(c.promotion, ps)
        /\ c.step = "switch" => c.promotion \in ps
    BY DEF Sound, MayRecord
  <2>2. c.promotion.at \in Nat
    BY <2>1, ConstantsAssumption DEF Promotion, Times
  <2> QED BY <2>1, <2>2, BackedGrows
<1>5. MayAuthorize(c)
  BY DEF Sound
<1> QED BY <1>2, <1>3, <1>4, <1>5 DEF Sound

-----------------------------------------------------------------------------
(* Lemmas about steps                                                      *)

LEMMA TimesNat == Times \subseteq Nat
BY ConstantsAssumption DEF Times

\* What holds of records, state files and authorizations survives a step that
\* writes none of them.
LEMMA RecordsStay ==
    ASSUME ChainInv,
           now \in Nat, now' \in Nat, now <= now',
           UNCHANGED <<promotions, environment, authorized>>
    PROVE  RecordsPast' /\ RecordsBacked' /\ StatesCite' /\ AuthorizationsCite'
<1>1. RecordsPast'
  <2>1. \A q \in promotions : q.at \in Nat
    BY TimesNat DEF ChainInv, Types, Promotion
  <2> QED BY <2>1 DEF ChainInv, RecordsPast
<1>2. RecordsBacked' /\ StatesCite' /\ AuthorizationsCite'
  BY DEF ChainInv, RecordsBacked, StatesCite, AuthorizationsCite, Backed, Cites
<1> QED BY <1>1, <1>2

\* The calls of a step in which session s alone moves, to d.
LEMMA CallMoves ==
    ASSUME ChainInv,
           NEW s \in Sessions, NEW d \in Call \cup {Idle},
           calls' = [calls EXCEPT ![s] = d],
           promotions \subseteq promotions',
           \A p \in Packages :
               environment[p] # Development => environment'[p] # Development,
           now \in Nat, now' \in Nat, now <= now',
           d.step # "idle" => Sound(d, promotions', environment', now')
    PROVE  calls' \in [Sessions -> Call \cup {Idle}] /\ CallsSound'
<1>1. calls' \in [Sessions -> Call \cup {Idle}]
  BY DEF ChainInv, Types
<1>2. ASSUME NEW r \in Sessions, Running(r)'
      PROVE  Sound(calls'[r], promotions', environment', now')
  <2>1. CASE r = s
    BY <1>2, <2>1 DEF ChainInv, Types, Running
  <2>2. CASE r # s
    <3>1. calls'[r] = calls[r] /\ calls[r] \in Call \cup {Idle}
      BY <2>2 DEF ChainInv, Types
    <3>2. calls[r].step # "idle"
      BY <1>2, <3>1 DEF Running
    <3>3. calls[r] \in Call
      BY <3>1, <3>2 DEF Idle
    <3>4. Sound(calls[r], promotions, environment, now)
      BY <3>2 DEF ChainInv, CallsSound, Running
    <3> QED BY <3>1, <3>3, <3>4, SoundStays
  <2> QED BY <2>1, <2>2
<1> QED BY <1>1, <1>2 DEF CallsSound

\* A step that writes no record, state file or authorization and moves only
\* the call of s keeps the invariant if the call stays sound.
LEMMA OnlyCallMoves ==
    ASSUME ChainInv,
           NEW s \in Sessions, NEW d \in Call \cup {Idle},
           calls' = [calls EXCEPT ![s] = d],
           UNCHANGED <<now, promotions, environment, authorized>>,
           active' \in Packages \cup {NoPackage},
           d.step # "idle" => Sound(d, promotions, environment, now)
    PROVE  ChainInv'
<1>1. now \in Nat /\ now <= now
  BY TimesNat DEF ChainInv, Types
<1>2. calls' \in [Sessions -> Call \cup {Idle}] /\ CallsSound'
  BY <1>1, CallMoves
<1>3. RecordsPast' /\ RecordsBacked' /\ StatesCite' /\ AuthorizationsCite'
  BY <1>1, RecordsStay
<1>4. Types'
  BY <1>2 DEF ChainInv, Types
<1> QED BY <1>2, <1>3, <1>4 DEF ChainInv

\* A step that moves no call and writes no record, state file or authorization.
LEMMA NoCallMoves ==
    ASSUME ChainInv,
           UNCHANGED <<promotions, environment, authorized, calls>>,
           now' \in Times, now <= now',
           active' \in Packages \cup {NoPackage}
    PROVE  ChainInv'
<1>1. now \in Nat /\ now' \in Nat
  BY TimesNat DEF ChainInv, Types
<1>2. RecordsPast' /\ RecordsBacked' /\ StatesCite' /\ AuthorizationsCite'
  BY <1>1, RecordsStay
<1>3. Types'
  BY DEF ChainInv, Types
<1>4. ASSUME NEW r \in Sessions, Running(r)'
      PROVE  Sound(calls'[r], promotions', environment', now')
  <2>1. calls[r] \in Call \cup {Idle} /\ calls[r].step # "idle"
    BY <1>4 DEF ChainInv, Types, Running
  <2>2. calls[r] \in Call
    BY <2>1 DEF Idle
  <2>3. Sound(calls[r], promotions, environment, now)
    BY <2>1 DEF ChainInv, CallsSound, Running
  <2> QED BY <1>1, <2>2, <2>3, SoundStays
<1> QED BY <1>2, <1>3, <1>4 DEF ChainInv, CallsSound

\* A running call is a record of type Call, and sound.
LEMMA RunningCall ==
    ASSUME ChainInv, NEW s \in Sessions, calls[s].step # "idle"
    PROVE  calls[s] \in Call /\ Sound(calls[s], promotions, environment, now)
BY DEF ChainInv, Types, CallsSound, Running, Idle

-----------------------------------------------------------------------------
(* One lemma for each way in which an action disturbs the invariant.       *)

\* The call that Start puts down.
NewCall(op, p, source, requested) ==
    [step |-> "state", op |-> op, package |-> p, source |-> source,
     requested |-> requested, ref |-> 0, state |-> Development,
     promotion |-> NoPromotion]

LEMMA NewCallTyped ==
    ASSUME NEW op \in {"promote", "activate", "authorize"}, NEW p \in Packages,
           NEW source \in EnvironmentSet, NEW requested \in EnvironmentSet
    PROVE  NewCall(op, p, source, requested) \in Call
<1>1. 0 \in Times
  BY ConstantsAssumption DEF Times
<1>2. Development \in State
  BY EnvironmentValues DEF Development, State
<1> QED BY <1>1, <1>2 DEF NewCall, Call

LEMMA PromoteStep ==
    ASSUME ChainInv, NEW s \in Sessions, NEW p \in Packages,
           NEW target \in EnvironmentSet, Promote(s, p, target)
    PROVE  ChainInv'
<1> DEFINE current == environment[p].environment
           d == NewCall("promote", p, current, target)
<1>1. current \in EnvironmentSet
  BY DEF ChainInv, Types, State
<1>2. d \in Call
  BY <1>1, NewCallTyped
<1>3. Index(target) = Index(current) + 1
  BY DEF Promote
<1>4. /\ target # "development"
      /\ target = "production" => current = "validation"
  BY <1>1, <1>3, NextEnvironment
<1>5. target = "production" => environment[p] # Development
  BY <1>4 DEF Development
<1>6. Sound(d, promotions, environment, now)
  BY <1>4, <1>5 DEF Sound, Asks, HasRead, MayRecord, MayAuthorize, NewCall
<1>7. /\ calls' = [calls EXCEPT ![s] = d]
      /\ UNCHANGED <<now, promotions, environment, authorized, active>>
  BY DEF Promote, Start, NewCall
<1>8. active' \in Packages \cup {NoPackage}
  BY <1>7 DEF ChainInv, Types
<1> HIDE DEF d
<1> QED BY <1>2, <1>6, <1>7, <1>8, OnlyCallMoves

LEMMA ActivateStep ==
    ASSUME ChainInv, NEW s \in Sessions, NEW p \in Packages, Activate(s, p)
    PROVE  ChainInv'
<1> DEFINE d == NewCall("activate", p, "development", "production")
<1>1. d \in Call
  BY NewCallTyped, EnvironmentValues
<1>2. Sound(d, promotions, environment, now)
  BY DEF Sound, Asks, HasRead, MayRecord, MayAuthorize, NewCall
<1>3. /\ calls' = [calls EXCEPT ![s] = d]
      /\ UNCHANGED <<now, promotions, environment, authorized, active>>
  BY DEF Activate, Start, NewCall
<1>4. active' \in Packages \cup {NoPackage}
  BY <1>3 DEF ChainInv, Types
<1> HIDE DEF d
<1> QED BY <1>1, <1>2, <1>3, <1>4, OnlyCallMoves

LEMMA AuthorizeStep ==
    ASSUME ChainInv, NEW s \in Sessions, Authorize(s)
    PROVE  ChainInv'
<1> DEFINE d == NewCall("authorize", active, "development", "production")
<1>0. active \in Packages
  BY DEF ChainInv, Types, Authorize
<1>1. d \in Call
  BY <1>0, NewCallTyped, EnvironmentValues
<1>2. Sound(d, promotions, environment, now)
  BY DEF Sound, Asks, HasRead, MayRecord, MayAuthorize, NewCall
<1>3. /\ calls' = [calls EXCEPT ![s] = d]
      /\ UNCHANGED <<now, promotions, environment, authorized, active>>
  BY DEF Authorize, Start, NewCall
<1>4. active' \in Packages \cup {NoPackage}
  BY <1>3 DEF ChainInv, Types
<1> HIDE DEF d
<1> QED BY <1>1, <1>2, <1>3, <1>4, OnlyCallMoves

LEMMA ReadStateStep ==
    ASSUME ChainInv, NEW s \in Sessions, ReadState(s)
    PROVE  ChainInv'
<1> DEFINE c == calls[s]
           d == [c EXCEPT !.step = "signature", !.ref = now,
                          !.state = environment[c.package]]
<1>1. /\ c \in Call /\ Sound(c, promotions, environment, now)
      /\ c.step = "state"
  BY RunningCall DEF ReadState
<1>2. environment[c.package] \in State /\ c.package \in Packages /\ now \in Times
  BY <1>1 DEF ChainInv, Types, Call
<1>3. d \in Call
  BY <1>1, <1>2 DEF Call
<1>4. /\ d.step = "signature" /\ d.op = c.op /\ d.requested = c.requested
      /\ d.package = c.package /\ d.state = environment[c.package]
  BY <1>1 DEF Call
<1>5. Asks(d, environment)
  BY <1>1, <1>4 DEF Sound, Asks
<1>6. HasRead(d, promotions)
  <2>1. d.state # Development => Cites(d.state, d.package, promotions)
    BY <1>2, <1>4 DEF ChainInv, StatesCite
  <2>2. d.op = "promote" /\ d.requested = "production" => d.state # Development
    BY <1>4, <1>5 DEF Asks
  <2> QED BY <2>1, <2>2 DEF HasRead
<1>7. Sound(d, promotions, environment, now)
  BY <1>4, <1>5, <1>6 DEF Sound, MayRecord, MayAuthorize
<1>8. calls' = [calls EXCEPT ![s] = d]
  BY <1>1 DEF ReadState, ChainInv, Types, Call
<1>9. /\ UNCHANGED <<now, promotions, environment, authorized>>
      /\ active' \in Packages \cup {NoPackage}
  BY DEF ReadState, ChainInv, Types
<1> HIDE DEF d
<1> QED BY <1>3, <1>7, <1>8, <1>9, OnlyCallMoves

\* A read that passes leads to a step where nothing more is claimed.
LEMMA CheckStep ==
    ASSUME ChainInv, NEW s \in Sessions, NEW passes \in BOOLEAN,
           NEW step \in {"signature", "reviews"},
           NEW next \in {"reviews", "evidence"},
           Check(s, step, passes, next),
           UNCHANGED <<now, promotions, environment, authorized, active>>
    PROVE  ChainInv'
<1> DEFINE c == calls[s]
<1>1. /\ c \in Call /\ Sound(c, promotions, environment, now)
      /\ c.step = step
  BY RunningCall DEF Check
<1>2. active' \in Packages \cup {NoPackage}
  BY DEF ChainInv, Types
<1>3. CASE passes
  <2> DEFINE d == [c EXCEPT !.step = next]
  <2>1. d \in Call
    BY <1>1 DEF Call
  <2>2. /\ d.step = next /\ d.op = c.op /\ d.requested = c.requested
        /\ d.package = c.package /\ d.state = c.state
    BY <1>1 DEF Call
  <2>3. Sound(d, promotions, environment, now)
    BY <1>1, <2>2 DEF Sound, Asks, HasRead, MayRecord, MayAuthorize
  <2>4. calls' = [calls EXCEPT ![s] = d]
    BY <1>3 DEF Check, ChainInv, Types
  <2> HIDE DEF d
  <2> QED BY <1>2, <2>1, <2>3, <2>4, OnlyCallMoves
<1>4. CASE ~passes
  <2>1. calls' = [calls EXCEPT ![s] = Idle] /\ Idle.step = "idle"
    BY <1>4 DEF Check, Idle
  <2> QED BY <1>2, <2>1, OnlyCallMoves
<1> QED BY <1>3, <1>4

\* The state that evaluate read backs a promotion to production.
LEMMA ReadStateBacks ==
    ASSUME ChainInv, NEW c \in Call, Sound(c, promotions, environment, now),
           c.step # "state", c.op = "promote", c.requested = "production"
    PROVE  \E v \in promotions :
               v.package = c.package /\ v.target = "validation" /\ v.at <= now
<1> DEFINE q == c.state.promotion
<1>1. Cites(c.state, c.package, promotions)
  BY DEF Sound, HasRead
<1>2. q \in promotions /\ q.package = c.package
  BY <1>1 DEF Cites
<1>3. /\ q.at \in Nat /\ now \in Nat /\ q.at <= now
      /\ q.target \in EnvironmentSet /\ q.target # "development"
  BY <1>2, TimesNat DEF ChainInv, Types, Promotion, RecordsPast
<1> HIDE DEF q
<1>4. CASE q.target = "validation"
  BY <1>2, <1>3, <1>4
<1>5. CASE q.target = "production"
  <2>1. PICK v \in promotions :
            v.package = q.package /\ v.target = "validation" /\ v.at <= q.at
    BY <1>2, <1>5 DEF ChainInv, RecordsBacked, Backed
  <2>2. v.at \in Nat
    BY TimesNat DEF ChainInv, Types, Promotion
  <2> QED BY <1>2, <1>3, <2>1, <2>2
<1> QED BY <1>3, <1>4, <1>5, EnvironmentValues

LEMMA ReadEvidenceStep ==
    ASSUME ChainInv, NEW s \in Sessions, ReadEvidence(s)
    PROVE  ChainInv'
<1> DEFINE c == calls[s]
<1>1. /\ c \in Call /\ Sound(c, promotions, environment, now)
      /\ c.step = "evidence"
  BY RunningCall DEF ReadEvidence
<1>2. /\ UNCHANGED <<now, promotions, environment, authorized>>
      /\ active' \in Packages \cup {NoPackage}
  BY DEF ReadEvidence, ChainInv, Types
<1>3. CASE ~EvidencePasses(c) /\ calls' = [calls EXCEPT ![s] = Idle]
  BY <1>2, <1>3, OnlyCallMoves DEF Idle
<1>4. CASE /\ EvidencePasses(c) /\ c.op # "promote"
           /\ calls' = [calls EXCEPT ![s].step = "write"]
  <2> DEFINE d == [c EXCEPT !.step = "write"]
  <2>1. d \in Call
    BY <1>1 DEF Call
  <2>2. /\ d.step = "write" /\ d.op = c.op /\ d.requested = c.requested
        /\ d.package = c.package /\ d.state = c.state
    BY <1>1 DEF Call
  <2>3. c.op = "authorize" => c.state.environment = "production"
    BY <1>1, <1>4 DEF EvidencePasses, IsFinal, Sound, Asks
  <2>4. Sound(d, promotions, environment, now)
    BY <1>1, <2>2, <2>3 DEF Sound, Asks, HasRead, MayRecord, MayAuthorize
  <2>5. calls' = [calls EXCEPT ![s] = d]
    BY <1>4 DEF ChainInv, Types
  <2> HIDE DEF d
  <2> QED BY <1>2, <2>1, <2>4, <2>5, OnlyCallMoves
<1>5. ASSUME EvidencePasses(c), c.op = "promote", NEW mark \in Marks,
             calls' = [calls EXCEPT ![s].step = "record",
                        ![s].promotion =
                            [package |-> c.package, source |-> c.source,
                             target |-> c.requested, at |-> now, mark |-> mark]]
      PROVE  ChainInv'
  <2> DEFINE q == [package |-> c.package, source |-> c.source,
                   target |-> c.requested, at |-> now, mark |-> mark]
             d == [c EXCEPT !.step = "record", !.promotion = q]
  <2>1. now \in Times /\ now \in Nat
    BY TimesNat DEF ChainInv, Types
  <2>2. q \in Promotion
    BY <1>1, <2>1 DEF Call, Promotion
  <2>3. d \in Call
    BY <1>1, <2>2 DEF Call
  <2>4. /\ d.step = "record" /\ d.op = c.op /\ d.requested = c.requested
        /\ d.package = c.package /\ d.state = c.state /\ d.promotion = q
    BY <1>1 DEF Call
  <2>5. c.requested = "production" => Backed(q, promotions)
    BY <1>1, <1>5, ReadStateBacks DEF Backed
  <2>6. q.package = c.package /\ q.target = c.requested /\ q.at = now /\ now <= now
    BY <2>1
  <2>7. calls' = [calls EXCEPT ![s] = d]
    BY <1>5 DEF ChainInv, Types
  <2> HIDE DEF q, d
  <2>8. MayRecord(d, promotions, now)
    BY <1>5, <2>2, <2>4, <2>5, <2>6 DEF MayRecord
  <2>9. Sound(d, promotions, environment, now)
    BY <1>1, <2>4, <2>8 DEF Sound, Asks, HasRead, MayAuthorize
  <2> QED BY <1>2, <2>3, <2>7, <2>9, OnlyCallMoves
<1> QED BY <1>3, <1>4, <1>5 DEF ReadEvidence

LEMMA WriteRecordStep ==
    ASSUME ChainInv, NEW s \in Sessions, WriteRecord(s)
    PROVE  ChainInv'
<1> DEFINE c == calls[s]
           q == c.promotion
           d == [c EXCEPT !.step = "switch"]
<1>1. /\ c \in Call /\ Sound(c, promotions, environment, now)
      /\ c.step = "record"
  BY RunningCall DEF WriteRecord
<1>2. /\ promotions' = promotions \cup {q}
      /\ UNCHANGED <<now, environment, active, authorized>>
      /\ now \in Nat /\ now <= now
  BY TimesNat DEF WriteRecord, ChainInv, Types
<1>3. /\ c.op = "promote" /\ q \in Promotion /\ q.package = c.package
      /\ q.target = c.requested /\ q.at <= now
      /\ c.requested = "production" => Backed(q, promotions)
      /\ c.requested # "development"
  BY <1>1 DEF Sound, MayRecord, Asks
<1>4. d \in Call
  BY <1>1 DEF Call
<1>5. /\ d.step = "switch" /\ d.op = c.op /\ d.requested = c.requested
      /\ d.package = c.package /\ d.state = c.state /\ d.promotion = q
  BY <1>1 DEF Call
<1>6. calls' = [calls EXCEPT ![s] = d]
  BY DEF WriteRecord, ChainInv, Types
<1> HIDE DEF q, d
<1>7. Sound(d, promotions', environment', now')
  <2>1. Asks(d, environment')
    BY <1>1, <1>2, <1>5 DEF Sound, Asks
  <2>2. HasRead(d, promotions')
    BY <1>1, <1>2, <1>5 DEF Sound, HasRead, Cites
  <2>3. d.requested = "production" => Backed(q, promotions')
    BY <1>2, <1>3, <1>5, BackedGrows
  <2>4. MayRecord(d, promotions', now')
    BY <1>2, <1>3, <1>5, <2>3 DEF MayRecord
  <2> QED BY <1>5, <2>1, <2>2, <2>4 DEF Sound, MayAuthorize
<1>8. calls' \in [Sessions -> Call \cup {Idle}] /\ CallsSound'
  BY <1>2, <1>4, <1>6, <1>7, CallMoves
<1>9. Types'
  BY <1>2, <1>3, <1>8 DEF ChainInv, Types
<1>10. RecordsPast'
  BY <1>2, <1>3 DEF ChainInv, RecordsPast
<1>11. RecordsBacked'
  BY <1>2, <1>3, BackedGrows DEF ChainInv, RecordsBacked
<1>12. StatesCite' /\ AuthorizationsCite'
  BY <1>2 DEF ChainInv, StatesCite, AuthorizationsCite, Cites
<1> QED BY <1>8, <1>9, <1>10, <1>11, <1>12 DEF ChainInv

LEMMA WriteStateStep ==
    ASSUME ChainInv, NEW s \in Sessions, WriteState(s)
    PROVE  ChainInv'
<1> DEFINE c == calls[s]
           state == [environment |-> c.requested, promotion |-> c.promotion]
<1>1. /\ c \in Call /\ Sound(c, promotions, environment, now)
      /\ c.step = "switch"
  BY RunningCall DEF WriteState
<1>2. /\ environment' = [environment EXCEPT ![c.package] = state]
      /\ calls' = [calls EXCEPT ![s] = Idle]
      /\ UNCHANGED <<now, promotions, active, authorized>>
      /\ now \in Nat /\ now <= now /\ now' \in Nat
  BY TimesNat DEF WriteState, ChainInv, Types
<1>3. /\ c.op = "promote" /\ c.requested # "development"
      /\ Cites(state, c.package, promotions)
      /\ c.package \in Packages /\ state \in State
  BY <1>1 DEF Sound, MayRecord, Asks, Cites, Call, State
<1>4. environment' \in [Packages -> State]
  BY <1>2, <1>3 DEF ChainInv, Types
<1>5. state # Development
  BY <1>3 DEF Development
<1>6. \A p \in Packages :
          environment'[p] = IF p = c.package THEN state ELSE environment[p]
  BY <1>2 DEF ChainInv, Types
<1> HIDE DEF state
<1>7. \A p \in Packages :
          environment[p] # Development => environment'[p] # Development
  BY <1>5, <1>6
<1>8. Idle \in Call \cup {Idle} /\ Idle.step = "idle"
  BY DEF Idle
<1>9. calls' \in [Sessions -> Call \cup {Idle}] /\ CallsSound'
  BY <1>2, <1>7, <1>8, CallMoves
<1>10. Types'
  BY <1>2, <1>4, <1>9 DEF ChainInv, Types
<1>11. StatesCite'
  BY <1>2, <1>3, <1>6 DEF ChainInv, StatesCite
<1>12. RecordsPast' /\ RecordsBacked' /\ AuthorizationsCite'
  BY <1>2 DEF ChainInv, RecordsPast, RecordsBacked, AuthorizationsCite
<1> QED BY <1>9, <1>10, <1>11, <1>12 DEF ChainInv

LEMMA WriteActiveStep ==
    ASSUME ChainInv, NEW s \in Sessions, WriteActive(s)
    PROVE  ChainInv'
<1>1. calls[s] \in Call
  BY RunningCall DEF WriteActive
<1>2. active' \in Packages \cup {NoPackage}
  BY <1>1 DEF WriteActive, Call
<1>3. /\ calls' = [calls EXCEPT ![s] = Idle] /\ Idle.step = "idle"
      /\ UNCHANGED <<now, promotions, environment, authorized>>
  BY DEF WriteActive, Idle
<1> QED BY <1>2, <1>3, OnlyCallMoves

LEMMA WriteAuthorizationStep ==
    ASSUME ChainInv, NEW s \in Sessions, WriteAuthorization(s)
    PROVE  ChainInv'
<1> DEFINE c == calls[s]
           a == [package |-> c.package, promotion |-> c.state.promotion]
<1>1. /\ c \in Call /\ Sound(c, promotions, environment, now)
      /\ c.step = "write" /\ c.op = "authorize"
  BY RunningCall DEF WriteAuthorization
<1>2. /\ authorized' = authorized \cup {a}
      /\ calls' = [calls EXCEPT ![s] = Idle] /\ Idle.step = "idle"
      /\ UNCHANGED <<now, promotions, environment, active>>
      /\ now \in Nat /\ now <= now /\ now' \in Nat
  BY TimesNat DEF WriteAuthorization, ChainInv, Types, Idle
<1>3. c.state.environment = "production"
  BY <1>1 DEF Sound, MayAuthorize
<1>4. c.state # Development
  BY <1>3 DEF Development
<1>5. Cites(c.state, c.package, promotions)
  BY <1>1, <1>4 DEF Sound, HasRead
<1>6. /\ a.promotion \in promotions
      /\ a.promotion.package = a.package
      /\ a.promotion.target = "production"
  BY <1>3, <1>5 DEF Cites
<1> HIDE DEF a
<1>7. AuthorizationsCite'
  BY <1>2, <1>6 DEF ChainInv, AuthorizationsCite
<1>8. calls' \in [Sessions -> Call \cup {Idle}] /\ CallsSound'
  BY <1>2, CallMoves
<1>9. Types'
  BY <1>2, <1>8 DEF ChainInv, Types
<1>10. RecordsPast' /\ RecordsBacked' /\ StatesCite'
  BY <1>2 DEF ChainInv, RecordsPast, RecordsBacked, StatesCite
<1> QED BY <1>7, <1>8, <1>9, <1>10 DEF ChainInv

-----------------------------------------------------------------------------
(* The invariant holds, and says what ChainOfPromotions says.              *)

\* In the initial state nothing is recorded, promoted or running.
LEMMA ChainInit == Init => ChainInv
<1> SUFFICES ASSUME Init PROVE ChainInv
  OBVIOUS
<1>1. 0 \in Times /\ Development \in State
  BY ConstantsAssumption, EnvironmentValues DEF Times, Development, State
<1>2. Types
  BY <1>1 DEF Init, Types
<1>3. RecordsPast /\ RecordsBacked /\ StatesCite /\ AuthorizationsCite
  BY DEF Init, RecordsPast, RecordsBacked, StatesCite, AuthorizationsCite
<1>4. CallsSound
  BY DEF Init, CallsSound, Running, Idle
<1> QED BY <1>2, <1>3, <1>4 DEF ChainInv

\* Every action keeps the invariant.
LEMMA ChainNext == ChainInv /\ [Next]_vars => ChainInv'
<1> SUFFICES ASSUME ChainInv, [Next]_vars PROVE ChainInv'
  OBVIOUS
<1>1. /\ now \in Times /\ now \in Nat /\ now <= now
      /\ active \in Packages \cup {NoPackage}
  BY TimesNat DEF ChainInv, Types
<1>2. CASE Tick
  <2>1. now' \in Times /\ now <= now'
    BY <1>1, <1>2, ConstantsAssumption DEF Tick, Times
  <2> QED BY <1>1, <1>2, <2>1, NoCallMoves DEF Tick
<1>3. ASSUME NEW e \in Envelopes, ImportSignature(e) PROVE ChainInv'
  BY <1>1, <1>3, NoCallMoves DEF ImportSignature
<1>4. ASSUME NEW p \in Packages, NEW r \in Reviewers, NEW at \in Dates \cup {now},
             NEW decision \in {"approve", "reject"}, SubmitReview(p, r, decision, at)
      PROVE  ChainInv'
  BY <1>1, <1>4, NoCallMoves DEF SubmitReview
<1>5. ASSUME NEW target \in Targets, NEW from \in Dates \cup {now},
             Revoke(target, from)
      PROVE  ChainInv'
  BY <1>1, <1>5, NoCallMoves DEF Revoke
<1>6. CASE Deactivate
  BY <1>1, <1>6, NoCallMoves DEF Deactivate
<1>7. ASSUME NEW s \in Sessions, NEW p \in Packages, NEW target \in EnvironmentSet,
             Promote(s, p, target)
      PROVE  ChainInv'
  BY <1>7, PromoteStep
<1>8. ASSUME NEW s \in Sessions, NEW p \in Packages, Activate(s, p) PROVE ChainInv'
  BY <1>8, ActivateStep
<1>9. ASSUME NEW s \in Sessions, Authorize(s) PROVE ChainInv'
  BY <1>9, AuthorizeStep
<1>10. ASSUME NEW s \in Sessions, ReadState(s) PROVE ChainInv'
  BY <1>10, ReadStateStep
<1>11. ASSUME NEW s \in Sessions, ReadSignature(s) PROVE ChainInv'
  <2>1. SignaturePasses(calls[s]) \in BOOLEAN
    BY DEF SignaturePasses
  <2> QED BY <1>11, <2>1, CheckStep DEF ReadSignature
<1>12. ASSUME NEW s \in Sessions, ReadReviews(s) PROVE ChainInv'
  <2>1. ReviewsPass(calls[s]) \in BOOLEAN
    BY DEF ReviewsPass
  <2> QED BY <1>12, <2>1, CheckStep DEF ReadReviews
<1>13. ASSUME NEW s \in Sessions, ReadEvidence(s) PROVE ChainInv'
  BY <1>13, ReadEvidenceStep
<1>14. ASSUME NEW s \in Sessions, WriteRecord(s) PROVE ChainInv'
  BY <1>14, WriteRecordStep
<1>15. ASSUME NEW s \in Sessions, WriteState(s) PROVE ChainInv'
  BY <1>15, WriteStateStep
<1>16. ASSUME NEW s \in Sessions, WriteActive(s) PROVE ChainInv'
  BY <1>16, WriteActiveStep
<1>17. ASSUME NEW s \in Sessions, WriteAuthorization(s) PROVE ChainInv'
  BY <1>17, WriteAuthorizationStep
<1>18. ASSUME NEW s \in Sessions, Fail(s) PROVE ChainInv'
  BY <1>1, <1>18, OnlyCallMoves DEF Fail, Idle
<1>19. CASE UNCHANGED vars
  BY <1>1, <1>19, NoCallMoves DEF vars
<1> QED
  BY <1>2, <1>3, <1>4, <1>5, <1>6, <1>7, <1>8, <1>9, <1>10, <1>11, <1>12, <1>13,
     <1>14, <1>15, <1>16, <1>17, <1>18, <1>19 DEF Next

\* The parts about records, states and authorizations make up the chain.
LEMMA ChainFollows == ChainInv => ChainOfPromotions
<1> SUFFICES ASSUME ChainInv PROVE ChainOfPromotions
  OBVIOUS
<1>1. \A q \in promotions : q.target = "production" =>
          \E v \in promotions :
              v.package = q.package /\ v.target = "validation" /\ v.at <= q.at
  BY DEF ChainInv, RecordsBacked, Backed
<1>2. \A a \in authorized :
          /\ a.promotion \in promotions
          /\ a.promotion.package = a.package
          /\ a.promotion.target = "production"
  BY DEF ChainInv, AuthorizationsCite
<1>3. \A p \in Packages : environment[p] # Development =>
          /\ environment[p].promotion \in promotions
          /\ environment[p].promotion.package = p
          /\ environment[p].promotion.target = environment[p].environment
  BY DEF ChainInv, StatesCite, Cites
<1> QED BY <1>1, <1>2, <1>3 DEF ChainOfPromotions

\* The inductive invariant of the trust files holds in every reachable state:
\* promote writes the record first, and evaluate reads the state before it.
THEOREM ChainInvariance == Spec => []ChainInv
<1> QED BY ChainInit, ChainNext, PTL DEF Spec

\* Production promotions and final authorizations rest on validation, however
\* many sessions call promote, activate_package and authorize at once.
THEOREM ProductionRestsOnValidation == Spec => []ChainOfPromotions
<1> QED BY ChainInvariance, ChainFollows, PTL

-----------------------------------------------------------------------------
(* Obstacles.                                                              *)

\* Only what the lookups need.
ObstacleTypes == signatures \subseteq Envelopes

RecordsTyped ==
    /\ reviews \in Seq(Review)
    /\ \A i \in DOMAIN reviews : reviews[i].previous < i

IsEnd(l, p, r) ==
    /\ l \in Chain(p, r)
    /\ Terminal(p, r) = {l}
    /\ \A j \in Chain(p, r) : j <= l

LinearChains ==
    \A p \in Packages, r \in Reviewers :
        Chain(p, r) # {} => \E l \in Chain(p, r) : IsEnd(l, p, r)

Beyond(s) == calls[s].step \notin {"idle", "state"}

\* What stands against a call does so now.
StandsNow ==
    \A s \in Sessions : Beyond(s) => standing[s] \subseteq Obstacles(calls[s])

ReviewKinds == {"rejected", "unapproved"}
SignatureKinds == {"revoked", "unsigned", "no rights"}

\* The reads a call has behind it leave nothing of their kinds standing.
Cleared ==
    \A s \in Sessions :
        /\ calls[s].step = "reviews" =>
              \A o \in standing[s] : o[1] \notin SignatureKinds
        /\ calls[s].step \in {"evidence", "record", "switch", "write"} =>
              standing[s] = {}

ObstacleInv == ObstacleTypes /\ RecordsTyped /\ LinearChains /\ StandsNow /\ Cleared

-----------------------------------------------------------------------------
(* Chains                                                                  *)

LEMMA ChainIndices ==
    ASSUME RecordsTyped, NEW p, NEW r
    PROVE  /\ Chain(p, r) \subseteq DOMAIN reviews
           /\ DOMAIN reviews = 1..Len(reviews) /\ Len(reviews) \in Nat
           /\ \A i \in DOMAIN reviews : i \in Nat /\ reviews[i].previous \in Nat
<1>1. DOMAIN reviews = 1..Len(reviews) /\ Len(reviews) \in Nat
  BY DEF RecordsTyped
<1>2. \A i \in DOMAIN reviews : reviews[i] \in Review
  BY DEF RecordsTyped
<1>3. \A i \in DOMAIN reviews : reviews[i].previous \in Nat
  BY <1>2 DEF Review
<1>4. Chain(p, r) \subseteq DOMAIN reviews
  BY DEF Chain
<1> QED BY <1>1, <1>3, <1>4

\* The code's lookup and the reviewer's last word are the end of the chain.
LEMMA EndFound ==
    ASSUME RecordsTyped, NEW p \in Packages, NEW r \in Reviewers,
           NEW l \in Chain(p, r), IsEnd(l, p, r)
    PROVE  /\ Latest(p, r) = l
           /\ Decision(p, r) = reviews[l].decision
           /\ LastWord(p, r) = reviews[l].decision
<1>1. l \in DOMAIN reviews /\ reviews[l].at \in Nat
  <2>1. l \in DOMAIN reviews
    BY ChainIndices
  <2>2. reviews[l] \in Review
    BY <2>1 DEF RecordsTyped
  <2>3. reviews[l].at \in Times \cup Dates
    BY <2>2 DEF Review
  <2>4. Dates \subseteq Nat
    BY ConstantsAssumption
  <2> QED BY <2>1, <2>3, <2>4, TimesNat
<1>2. Terminal(p, r) = {l}
  BY DEF IsEnd
<1>3. Latest(p, r) = l
  BY <1>1, <1>2 DEF Latest
<1>4. Chain(p, r) # {} /\ Chain(p, r) \subseteq Nat
  BY ChainIndices
<1>5. (CHOOSE i \in Chain(p, r) : \A j \in Chain(p, r) : j <= i) = l
  BY <1>4 DEF IsEnd
<1> QED BY <1>3, <1>4, <1>5 DEF Decision, LastWord

LEMMA DecisionIsLastWord ==
    ASSUME RecordsTyped, LinearChains, NEW p \in Packages, NEW r \in Reviewers
    PROVE  Decision(p, r) = LastWord(p, r)
<1>1. CASE Chain(p, r) = {}
  BY <1>1 DEF Decision, LastWord
<1>2. CASE Chain(p, r) # {}
  BY <1>2, EndFound DEF LinearChains
<1> QED BY <1>1, <1>2

\* submit_review extends one chain at its end.
LEMMA ReviewStep ==
    ASSUME ChainInv, RecordsTyped, LinearChains,
           NEW p \in Packages, NEW r \in Reviewers, NEW at \in Dates \cup {now},
           NEW decision \in {"approve", "reject"}, SubmitReview(p, r, decision, at)
    PROVE  RecordsTyped' /\ LinearChains'
<1> DEFINE before == IF Chain(p, r) = {} THEN 0 ELSE Latest(p, r)
           record == [package |-> p, reviewer |-> r, decision |-> decision,
                      at |-> at, previous |-> before]
           n == Len(reviews) + 1
<1>1. /\ Len(reviews) \in Nat /\ DOMAIN reviews = 1..Len(reviews)
      /\ reviews \in Seq(Review)
  BY DEF RecordsTyped
<1>2. before \in Nat /\ before < n
  <2>1. CASE Chain(p, r) = {}
    BY <1>1, <2>1
  <2>2. CASE Chain(p, r) # {}
    <3>1. PICK l \in Chain(p, r) : IsEnd(l, p, r)
      BY <2>2 DEF LinearChains
    <3>2. before = l /\ l \in 1..Len(reviews)
      BY <1>1, <2>2, <3>1, EndFound, ChainIndices
    <3> QED BY <1>1, <3>2
  <2> QED BY <2>1, <2>2
<1>3. at \in Times \cup Dates
  BY DEF ChainInv, Types
<1>4. record \in Review
  BY <1>2, <1>3 DEF Review
<1>5. reviews' = Append(reviews, record)
  BY DEF SubmitReview
<1> HIDE DEF before, record
<1>6. /\ reviews' \in Seq(Review) /\ DOMAIN reviews' = 1..n
      /\ reviews'[n] = record
      /\ \A i \in DOMAIN reviews : i < n /\ reviews'[i] = reviews[i]
  BY <1>1, <1>4, <1>5
<1>7. record.previous = before /\ record.package = p /\ record.reviewer = r
  BY DEF record
<1>8. RecordsTyped'
  BY <1>1, <1>2, <1>6, <1>7 DEF RecordsTyped
<1>9. ASSUME NEW q \in Packages, NEW v \in Reviewers, Chain(q, v)' # {}
      PROVE  \E l \in Chain(q, v)' : IsEnd(l, q, v)'
  <2>1. CASE q = p /\ v = r
    <3>1. Chain(p, r)' = Chain(p, r) \cup {n}
      BY <1>1, <1>6, <1>7 DEF Chain
    <3>2. n \notin Chain(p, r) /\ \A i \in Chain(p, r) :
              reviews'[i].previous = reviews[i].previous /\ i < n
                 /\ reviews[i].previous < n
      <4>1. \A i \in Chain(p, r) :
                /\ i \in DOMAIN reviews /\ i < n /\ i \in Nat
                /\ reviews'[i] = reviews[i]
                /\ reviews[i].previous \in Nat
        BY <1>6, ChainIndices
      <4>2. \A i \in Chain(p, r) : reviews[i].previous < i
        BY <4>1 DEF RecordsTyped
      <4>3. n \notin Chain(p, r) /\ n \in Nat
        BY <1>1, <4>1
      <4> HIDE DEF n
      <4> QED BY <4>1, <4>2, <4>3
    <3>3. {reviews'[i].previous : i \in Chain(p, r)'}
             = {reviews[i].previous : i \in Chain(p, r)} \cup {before}
      BY <3>1, <3>2, <1>6, <1>7
    <3>4. Terminal(p, r) \subseteq {before}
      <4>1. CASE Chain(p, r) = {}
        BY <4>1 DEF Terminal
      <4>2. CASE Chain(p, r) # {}
        <5>1. PICK l \in Chain(p, r) : IsEnd(l, p, r)
          BY <4>2 DEF LinearChains
        <5>2. before = l
          BY <4>2, <5>1, EndFound DEF before
        <5> QED BY <5>1, <5>2 DEF IsEnd
      <4> QED BY <4>1, <4>2
    <3>5. n \notin {reviews[i].previous : i \in Chain(p, r)} /\ n # before
      BY <1>1, <1>2, <3>2, ChainIndices DEF RecordsTyped, Review
    <3>6. Terminal(p, r)' = {n}
      BY <3>1, <3>3, <3>4, <3>5 DEF Terminal
    <3>7. \A j \in Chain(p, r)' : j <= n
      BY <1>1, <3>1, <3>2, ChainIndices
    <3> QED BY <2>1, <3>1, <3>6, <3>7 DEF IsEnd
  <2>2. CASE q # p \/ v # r
    <3>1. Chain(q, v)' = Chain(q, v)
      BY <1>1, <1>6, <1>7, <2>2 DEF Chain
    <3>2. \A i \in Chain(q, v) : reviews'[i].previous = reviews[i].previous
      BY <1>6, ChainIndices
    <3>3. Terminal(q, v)' = Terminal(q, v)
      BY <3>1, <3>2 DEF Terminal
    <3>4. PICK l \in Chain(q, v) : IsEnd(l, q, v)
      BY <1>9, <3>1 DEF LinearChains
    <3> QED BY <3>1, <3>3, <3>4 DEF IsEnd
  <2> QED BY <2>1, <2>2
<1> QED BY <1>8, <1>9 DEF LinearChains

-----------------------------------------------------------------------------
(* What the reads exclude                                                  *)

LEMMA KindOf ==
    ASSUME NEW kind, NEW whose, NEW o, o = <<kind, whose>>
    PROVE  o[1] = kind
OBVIOUS

\* The ways in which something can stand against a call.
LEMMA ObstacleCases ==
    ASSUME NEW c, NEW o \in Obstacles(c)
    PROVE  \/ \E r \in Reviewers :
                  o = <<"rejected", r>> /\ LastWord(c.package, r) = "reject"
           \/ \E role \in RequiredReviews[c.requested] :
                  /\ o = <<"unapproved", role>>
                  /\ \A r \in Reviewers :
                        RoleOf[r] = role => LastWord(c.package, r) # "approve"
           \/ o = <<"revoked", c.package>> /\ Withdrawn(c, c.package)
           \/ o = <<"unsigned", c.package>> /\ Unsigned(c)
           \/ /\ o = <<"no rights", c.package>>
              /\ \/ c.ref >= Rights[c.package].until
                 \/ IsFinal(c) /\ ~Rights[c.package].final
BY Zenon DEF Obstacles

LEMMA KnownKinds ==
    ASSUME NEW c, NEW o \in Obstacles(c)
    PROVE  o[1] \in ReviewKinds \cup SignatureKinds
<1>1. \/ \E r \in Reviewers : o = <<"rejected", r>>
      \/ \E role \in RequiredReviews[c.requested] : o = <<"unapproved", role>>
      \/ o = <<"revoked", c.package>> \/ o = <<"unsigned", c.package>>
      \/ o = <<"no rights", c.package>>
  BY ObstacleCases
<1>2. \/ o[1] = "rejected" \/ o[1] = "unapproved" \/ o[1] = "revoked"
      \/ o[1] = "unsigned" \/ o[1] = "no rights"
  BY <1>1, KindOf
<1> QED BY <1>2 DEF ReviewKinds, SignatureKinds

\* A passing read of the rights, revocations and signatures.
LEMMA SignatureExcludes ==
    ASSUME ObstacleTypes, NEW c \in Call, SignaturePasses(c), NEW o \in Obstacles(c)
    PROVE  o[1] \notin SignatureKinds
<1>1. c.package \in Packages /\ c.ref \in Nat
  BY TimesNat DEF Call
<1>2. ~Withdrawn(c, c.package)
  BY DEF SignaturePasses, IsRevoked, Withdrawn
<1>3. ~Unsigned(c)
  <2>1. PICK e \in signatures : ValidSignature(e, c.package, c.requested, c.ref)
    BY DEF SignaturePasses
  <2>2. /\ Signed[e].package = c.package
        /\ c.requested \in Registry[Signed[e].key].environments
        /\ ~Withdrawn(c, e) /\ ~Withdrawn(c, Signed[e].key)
        /\ c.ref < Registry[Signed[e].key].until /\ c.ref < Signed[e].until
    BY <2>1 DEF ValidSignature, KeyScopeAllows, IsRevoked, Withdrawn
  <2>3. e \in Envelopes
    BY DEF ObstacleTypes
  <2>4. Registry[Signed[e].key].until \in Nat /\ Signed[e].until \in Nat
    BY <2>3, ConstantsAssumption DEF Deadlines
  <2>5. /\ ~(c.ref >= Registry[Signed[e].key].until)
        /\ ~(c.ref >= Signed[e].until)
    BY <1>1, <2>2, <2>4
  <2> QED BY <2>2, <2>5 DEF Unsigned
<1>4. /\ ~(c.ref >= Rights[c.package].until)
      /\ ~(IsFinal(c) /\ ~Rights[c.package].final)
  <2>1. Rights[c.package].until \in Nat
    BY <1>1, ConstantsAssumption DEF Deadlines
  <2> QED BY <1>1, <2>1 DEF SignaturePasses
<1>5. (\E r \in Reviewers : o = <<"rejected", r>>)
      \/ (\E role \in RequiredReviews[c.requested] : o = <<"unapproved", role>>)
  BY <1>2, <1>3, <1>4, ObstacleCases
<1>6. o[1] = "rejected" \/ o[1] = "unapproved"
  BY <1>5, KindOf
<1> QED BY <1>6 DEF SignatureKinds

\* A passing read of the reviews.
LEMMA ReviewsExclude ==
    ASSUME ChainInv, RecordsTyped, LinearChains,
           NEW c \in Call, ReviewsPass(c), NEW o \in Obstacles(c)
    PROVE  o[1] \notin ReviewKinds
<1>1. c.package \in Packages
  BY DEF Call
<1>2. \A r \in Reviewers : Decision(c.package, r) = LastWord(c.package, r)
  BY <1>1, DecisionIsLastWord
<1>3. \A r \in Reviewers : LastWord(c.package, r) # "reject"
  BY <1>2 DEF ReviewsPass
<1>4. \A role \in RequiredReviews[c.requested] :
          \E r \in Reviewers : RoleOf[r] = role /\ LastWord(c.package, r) = "approve"
  BY <1>2 DEF ReviewsPass
<1>5. o = <<"revoked", c.package>> \/ o = <<"unsigned", c.package>>
      \/ o = <<"no rights", c.package>>
  BY <1>3, <1>4, ObstacleCases
<1>6. o[1] = "revoked" \/ o[1] = "unsigned" \/ o[1] = "no rights"
  BY <1>5, KindOf
<1> QED BY <1>6 DEF ReviewKinds

-----------------------------------------------------------------------------
(* Steps                                                                   *)

\* How a step may change the call of session s.
Moves(s) ==
    \/ calls'[s] = calls[s]
    \/ calls'[s].step \in {"idle", "state"}
    \/ calls[s].step = "state" /\ calls'[s].step = "signature"
    \/ /\ calls[s].step = "signature" /\ calls'[s].step = "reviews"
       /\ SignaturePasses(calls[s])
    \/ /\ calls[s].step = "reviews" /\ calls'[s].step = "evidence"
       /\ ReviewsPass(calls[s])
    \/ /\ calls[s].step \in {"evidence", "record"}
       /\ calls'[s].step \in {"record", "switch", "write"}

LEMMA OneMoves ==
    ASSUME ChainInv, NEW s \in Sessions, NEW d,
           calls' = [calls EXCEPT ![s] = d], Moves(s), NEW r \in Sessions
    PROVE  Moves(r)
<1>1. CASE r = s
  BY <1>1
<1>2. CASE r # s
  <2>1. calls'[r] = calls[r]
    BY <1>2 DEF ChainInv, Types
  <2> QED BY <2>1 DEF Moves
<1> QED BY <1>1, <1>2

\* The action of a session moves its call one step on, or ends it.
LEMMA SessionMoves ==
    ASSUME ChainInv, NEW s \in Sessions, NEW r \in Sessions,
           \/ \E p \in Packages, target \in EnvironmentSet : Promote(s, p, target)
           \/ \E p \in Packages : Activate(s, p)
           \/ Authorize(s)
           \/ ReadState(s) \/ ReadSignature(s) \/ ReadReviews(s) \/ ReadEvidence(s)
           \/ WriteRecord(s) \/ WriteState(s)
           \/ WriteActive(s) \/ WriteAuthorization(s)
           \/ Fail(s)
    PROVE  Moves(r) /\ Watch /\ UNCHANGED records
<1> DEFINE d == calls'[s]
<1>0. calls[s].step # "idle" => calls[s] \in Call
  BY RunningCall
<1>1. ASSUME NEW p \in Packages, NEW target \in EnvironmentSet, Promote(s, p, target)
      PROVE  Moves(r) /\ Watch /\ UNCHANGED records
  BY <1>1, OneMoves DEF Promote, Start, Moves, ChainInv, Types
<1>2. ASSUME NEW p \in Packages, Activate(s, p)
      PROVE  Moves(r) /\ Watch /\ UNCHANGED records
  BY <1>2, OneMoves DEF Activate, Start, Moves, ChainInv, Types
<1>3. CASE Authorize(s)
  BY <1>3, OneMoves DEF Authorize, Start, Moves, ChainInv, Types
<1>4. CASE ReadState(s)
  BY <1>0, <1>4, OneMoves DEF ReadState, Moves, ChainInv, Types, Call
<1>5. CASE ReadSignature(s)
  BY <1>0, <1>5, OneMoves DEF ReadSignature, Check, Moves, ChainInv, Types, Call, Idle
<1>6. CASE ReadReviews(s)
  BY <1>0, <1>6, OneMoves DEF ReadReviews, Check, Moves, ChainInv, Types, Call, Idle
<1>7. CASE ReadEvidence(s)
  BY <1>0, <1>7, OneMoves DEF ReadEvidence, Moves, ChainInv, Types, Call, Idle
<1>8. CASE WriteRecord(s)
  BY <1>0, <1>8, OneMoves DEF WriteRecord, Moves, ChainInv, Types, Call
<1>9. CASE WriteState(s)
  BY <1>9, OneMoves DEF WriteState, Moves, ChainInv, Types, Idle
<1>10. CASE WriteActive(s)
  BY <1>10, OneMoves DEF WriteActive, Moves, ChainInv, Types, Idle
<1>11. CASE WriteAuthorization(s)
  BY <1>11, OneMoves DEF WriteAuthorization, Moves, ChainInv, Types, Idle
<1>12. CASE Fail(s)
  BY <1>12, OneMoves DEF Fail, Moves, ChainInv, Types, Idle
<1> QED
  BY <1>1, <1>2, <1>3, <1>4, <1>5, <1>6, <1>7, <1>8, <1>9, <1>10, <1>11, <1>12

\* What stands against the calls after a step.
LEMMA WatchStep ==
    ASSUME ChainInv, ObstacleInv, Watch, \A s \in Sessions : Moves(s)
    PROVE  StandsNow' /\ Cleared'
<1> SUFFICES ASSUME NEW s \in Sessions
             PROVE  /\ Beyond(s)' => standing'[s] \subseteq Obstacles(calls[s])'
                    /\ calls'[s].step = "reviews" =>
                          \A o \in standing'[s] : o[1] \notin SignatureKinds
                    /\ calls'[s].step \in {"evidence", "record", "switch", "write"} =>
                          standing'[s] = {}
  BY DEF StandsNow, Cleared
<1>1. Moves(s)
  OBVIOUS
<1>2. CASE calls'[s].step \in {"idle", "state"}
  BY <1>2 DEF Beyond
<1>3. CASE calls'[s].step \notin {"idle", "state"} /\ calls[s].step = "state"
  <2>1. standing'[s] = Obstacles(calls[s])'
    BY <1>3 DEF Watch
  <2>2. calls'[s].step = "signature"
    BY <1>1, <1>3 DEF Moves
  <2> QED BY <2>1, <2>2
<1>4. CASE calls'[s].step \notin {"idle", "state"} /\ calls[s].step # "state"
  <2>1. standing'[s] = {o \in standing[s] : (o \in Obstacles(calls[s]))'}
    BY <1>4 DEF Watch
  <2>2. calls[s].step # "idle" /\ calls[s] \in Call
    BY <1>1, <1>4, RunningCall DEF Moves
  <2>3. standing[s] \subseteq Obstacles(calls[s])
    BY <1>4, <2>2 DEF ObstacleInv, StandsNow, Beyond
  <2>4. CASE calls'[s] = calls[s]
    BY <2>1, <2>4 DEF ObstacleInv, Cleared
  <2>5. CASE /\ calls[s].step = "signature" /\ calls'[s].step = "reviews"
             /\ SignaturePasses(calls[s])
    BY <2>1, <2>2, <2>3, <2>5, SignatureExcludes DEF ObstacleInv
  <2>6. CASE /\ calls[s].step = "reviews" /\ calls'[s].step = "evidence"
             /\ ReviewsPass(calls[s])
    <3>1. \A o \in standing[s] : o[1] \notin ReviewKinds /\ o[1] \notin SignatureKinds
      BY <2>2, <2>3, <2>6, ReviewsExclude DEF ObstacleInv, Cleared
    <3>2. \A o \in Obstacles(calls[s]) : o[1] \in ReviewKinds \cup SignatureKinds
      BY KnownKinds
    <3>3. standing[s] = {}
      BY <2>3, <3>1, <3>2
    <3> QED BY <2>1, <2>6, <3>3
  <2>7. CASE /\ calls[s].step \in {"evidence", "record"}
             /\ calls'[s].step \in {"record", "switch", "write"}
    BY <2>1, <2>7 DEF ObstacleInv, Cleared
  <2> QED BY <1>1, <1>4, <2>2, <2>4, <2>5, <2>6, <2>7 DEF Moves
<1> QED BY <1>2, <1>3, <1>4

\* Chains do not change but by a review.
LEMMA RecordsKept ==
    ASSUME RecordsTyped, LinearChains, UNCHANGED reviews
    PROVE  RecordsTyped' /\ LinearChains'
BY DEF RecordsTyped, LinearChains, IsEnd, Chain, Terminal

LEMMA ObstacleInit == Init => ObstacleInv
<1> SUFFICES ASSUME Init PROVE ObstacleInv
  OBVIOUS
<1>1. reviews = <<>> /\ DOMAIN reviews = {}
  BY DEF Init
<1>2. RecordsTyped /\ LinearChains
  BY <1>1 DEF RecordsTyped, LinearChains, Chain
<1>3. ObstacleTypes
  BY DEF Init, ObstacleTypes
<1>4. StandsNow /\ Cleared
  BY DEF Init, StandsNow, Cleared, Beyond, Idle
<1> QED BY <1>2, <1>3, <1>4 DEF ObstacleInv

\* Every action keeps the chains linear and the passed reads clear.
LEMMA ObstacleNext == ChainInv /\ ObstacleInv /\ [Next]_vars => ObstacleInv'
<1> SUFFICES ASSUME ChainInv, ObstacleInv, [Next]_vars PROVE ObstacleInv'
  OBVIOUS
<1>1. ASSUME UNCHANGED calls PROVE \A s \in Sessions : Moves(s)
  BY <1>1 DEF Moves
<1>2. ASSUME Watch, \A s \in Sessions : Moves(s),
             RecordsTyped' /\ LinearChains' /\ ObstacleTypes'
      PROVE  ObstacleInv'
  BY <1>2, WatchStep DEF ObstacleInv
<1>3. ASSUME UNCHANGED <<reviews, signatures>>
      PROVE  RecordsTyped' /\ LinearChains' /\ ObstacleTypes'
  BY <1>3, RecordsKept DEF ObstacleInv, ObstacleTypes
<1>4. CASE Tick
  BY <1>1, <1>2, <1>3, <1>4 DEF Tick, records
<1>5. ASSUME NEW e \in Envelopes, ImportSignature(e) PROVE ObstacleInv'
  <2>1. ObstacleTypes'
    BY <1>5 DEF ObstacleInv, ObstacleTypes, ImportSignature
  <2>2. RecordsTyped' /\ LinearChains'
    BY <1>5, RecordsKept DEF ObstacleInv, ImportSignature
  <2> QED BY <1>1, <1>2, <1>5, <2>1, <2>2 DEF ImportSignature
<1>6. ASSUME NEW p \in Packages, NEW r \in Reviewers, NEW at \in Dates \cup {now},
             NEW decision \in {"approve", "reject"}, SubmitReview(p, r, decision, at)
      PROVE  ObstacleInv'
  <2>1. RecordsTyped' /\ LinearChains'
    BY <1>6, ReviewStep DEF ObstacleInv
  <2>2. ObstacleTypes'
    BY <1>6 DEF ObstacleInv, ObstacleTypes, SubmitReview
  <2> QED BY <1>1, <1>2, <1>6, <2>1, <2>2 DEF SubmitReview
<1>7. ASSUME NEW target \in Targets, NEW from \in Dates \cup {now},
             Revoke(target, from)
      PROVE  ObstacleInv'
  BY <1>1, <1>2, <1>3, <1>7 DEF Revoke
<1>8. CASE Deactivate
  BY <1>1, <1>2, <1>3, <1>8 DEF Deactivate, records
<1>9. ASSUME NEW s \in Sessions,
             \/ \E p \in Packages, target \in EnvironmentSet : Promote(s, p, target)
             \/ \E p \in Packages : Activate(s, p)
             \/ Authorize(s)
             \/ ReadState(s) \/ ReadSignature(s) \/ ReadReviews(s) \/ ReadEvidence(s)
             \/ WriteRecord(s) \/ WriteState(s)
             \/ WriteActive(s) \/ WriteAuthorization(s)
             \/ Fail(s)
      PROVE  ObstacleInv'
  <2>1. Watch /\ UNCHANGED records
    BY <1>9, SessionMoves
  <2>2. \A r \in Sessions : Moves(r)
    BY <1>9, SessionMoves
  <2> QED BY <1>2, <1>3, <2>1, <2>2 DEF records
<1>10. CASE UNCHANGED vars
  <2>1. RecordsTyped' /\ LinearChains' /\ ObstacleTypes'
    BY <1>3, <1>10 DEF vars, records
  <2>2. Cleared'
    BY <1>10 DEF vars, ObstacleInv, Cleared
  <2>3. ASSUME NEW c PROVE UNCHANGED Obstacles(c)
    <3>1. \A r : UNCHANGED LastWord(c.package, r)
      BY <1>10 DEF vars, records, LastWord, Chain
    <3>2. \A target : UNCHANGED Withdrawn(c, target)
      BY <1>10 DEF vars, records, Withdrawn
    <3>3. UNCHANGED Unsigned(c)
      BY <1>10, <3>2 DEF vars, records, Unsigned
    <3>4. UNCHANGED {x \in Reviewers : LastWord(c.package, x) = "reject"}
      BY <3>1
    <3>5. UNCHANGED {x \in RequiredReviews[c.requested] :
                        \A r \in Reviewers :
                            RoleOf[r] = x => LastWord(c.package, r) # "approve"}
      BY <3>1
    <3>6. UNCHANGED {x \in {c.package} : Withdrawn(c, x)}
      BY <3>2
    <3>7. UNCHANGED {x \in {c.package} : Unsigned(c)}
      BY <3>3
    <3> QED BY <3>4, <3>5, <3>6, <3>7, Zenon DEF Obstacles, IsFinal
  <2>4. StandsNow'
    BY <1>10, <2>3 DEF vars, ObstacleInv, StandsNow, Beyond
  <2> QED BY <2>1, <2>2, <2>4 DEF ObstacleInv
<1> QED
  BY <1>4, <1>5, <1>6, <1>7, <1>8, <1>9, <1>10 DEF Next

\* Chains stay linear, and reads of a decision leave nothing standing, however
\* reviews, revocations and the calls of other sessions come between them.
THEOREM ObstacleInvariance == Spec => []ObstacleInv
<1>1. Init /\ ChainInv => ObstacleInv
  BY ObstacleInit
<1> QED BY <1>1, ObstacleInit, ObstacleNext, ChainInvariance, PTL DEF Spec

\* No decision passes over an obstacle that stood from its reference time on:
\* evaluate reads four kinds of file one after the other while others write.
THEOREM NothingOverlooked == Spec => []NoStandingObstacle
<1>1. ObstacleInv => NoStandingObstacle
  BY DEF ObstacleInv, Cleared, NoStandingObstacle
<1> QED BY <1>1, ObstacleInvariance, PTL

-----------------------------------------------------------------------------
(* Types.                                                                  *)

\* A call holds a promotion record exactly while promote writes it and the state.
HoldsRecord(c) ==
    c.step # "idle" => (c.promotion # NoPromotion <=> c.step \in {"record", "switch"})

\* What the two invariants leave open.
PapersTyped ==
    /\ revocations \subseteq [target : Targets, from : Times \cup Dates]
    /\ \A a \in authorized : a = [package |-> a.package, promotion |-> a.promotion] /\ a.package \in Packages
    /\ \A s \in Sessions : HoldsRecord(calls[s])

\* A promotion record is not the empty one.
LEMMA PromotionIsRecord == NoPromotion \notin Promotion
<1> SUFFICES ASSUME NoPromotion \in Promotion PROVE FALSE
  OBVIOUS
<1>1. DOMAIN NoPromotion = {"package", "source", "target", "at", "mark"}
  BY DEF Promotion
<1>2. NoPromotion = <<>>
  BY DEF NoPromotion
<1>3. DOMAIN <<>> = {}
  OBVIOUS
<1> QED BY <1>1, <1>2, <1>3, Zenon

\* The step of one session.
LEMMA PapersStay ==
    ASSUME ChainInv, PapersTyped, NEW s \in Sessions, NEW d,
           calls' = [calls EXCEPT ![s] = d], HoldsRecord(d),
           UNCHANGED <<revocations, authorized>>
    PROVE  PapersTyped'
<1>1. \A r \in Sessions : calls'[r] = IF r = s THEN d ELSE calls[r]
  BY DEF ChainInv, Types
<1>2. \A r \in Sessions : HoldsRecord(calls'[r])
  BY <1>1 DEF PapersTyped
<1> QED BY <1>2 DEF PapersTyped

\* Every action keeps the records, the authorizations and the calls typed.
LEMMA PapersNext == ChainInv /\ PapersTyped /\ [Next]_vars => PapersTyped'
<1> SUFFICES ASSUME ChainInv, PapersTyped, [Next]_vars PROVE PapersTyped'
  OBVIOUS
<1>1. ASSUME UNCHANGED <<revocations, authorized, calls>> PROVE PapersTyped'
  BY <1>1 DEF PapersTyped
<1>2. CASE \/ Tick \/ Deactivate \/ UNCHANGED vars \/ \E e \in Envelopes : ImportSignature(e)
           \/ \E p \in Packages, r \in Reviewers, at \in Dates \cup {now} :
                 \E decision \in {"approve", "reject"} : SubmitReview(p, r, decision, at)
  BY <1>1, <1>2 DEF Tick, Deactivate, ImportSignature, SubmitReview, vars, records
<1>3. ASSUME NEW target \in Targets, NEW from \in Dates \cup {now}, Revoke(target, from)
      PROVE  PapersTyped'
  <2>1. from \in Times \cup Dates
    BY DEF ChainInv, Types
  <2>2. revocations' = revocations \cup {[target |-> target, from |-> from]} /\ UNCHANGED <<authorized, calls>>
    BY <1>3 DEF Revoke
  <2> QED BY <2>1, <2>2 DEF PapersTyped
<1>4. HoldsRecord(Idle)
  BY DEF HoldsRecord, Idle
<1>5. ASSUME NEW s \in Sessions,
             \/ \E p \in Packages, target \in EnvironmentSet : Promote(s, p, target)
             \/ \E p \in Packages : Activate(s, p)
             \/ Authorize(s)
      PROVE  PapersTyped'
  <2>1. PICK op, p, source, requested : calls' = [calls EXCEPT ![s] = NewCall(op, p, source, requested)]
    BY <1>5 DEF Promote, Activate, Authorize, Start, NewCall
  <2>2. HoldsRecord(NewCall(op, p, source, requested))
    BY DEF HoldsRecord, NewCall
  <2>3. UNCHANGED <<revocations, authorized>>
    BY <1>5 DEF Promote, Activate, Authorize, records
  <2> QED BY <2>1, <2>2, <2>3, PapersStay
<1>6. ASSUME NEW s \in Sessions, ReadState(s) \/ ReadSignature(s) \/ ReadReviews(s) \/ ReadEvidence(s)
      PROVE  PapersTyped'
  <2> DEFINE c == calls[s]
  <2>1. /\ c \in Call /\ c.step \in {"state", "signature", "reviews", "evidence"}
        /\ c.promotion = NoPromotion
    BY <1>6, RunningCall DEF ReadState, ReadSignature, ReadReviews, ReadEvidence, Check, PapersTyped, HoldsRecord
  <2>2. UNCHANGED <<revocations, authorized>>
    BY <1>6 DEF ReadState, ReadSignature, ReadReviews, ReadEvidence, records
  <2>3. calls' = [calls EXCEPT ![s] = calls'[s]]
    BY <1>6 DEF ReadState, ReadSignature, ReadReviews, ReadEvidence, Check, ChainInv, Types
  <2>4. CASE ReadState(s) \/ ReadSignature(s) \/ ReadReviews(s)
    <3>1. calls'[s] = Idle \/ (calls'[s].step \in {"signature", "reviews", "evidence"} /\ calls'[s].promotion = c.promotion)
      BY <2>1, <2>4 DEF ReadState, ReadSignature, ReadReviews, Check, ChainInv, Types, Call
    <3>2. HoldsRecord(calls'[s])
      BY <1>4, <2>1, <3>1 DEF HoldsRecord
    <3> QED BY <2>2, <2>3, <3>2, PapersStay
  <2>5. CASE ReadEvidence(s)
    <3>1. \/ calls'[s] = Idle
          \/ calls'[s].step = "write" /\ calls'[s].promotion = c.promotion
          \/ \E mark \in Marks :
                /\ calls'[s].step = "record"
                /\ calls'[s].promotion = [package |-> c.package, source |-> c.source,
                                          target |-> c.requested, at |-> now, mark |-> mark]
      BY <2>1, <2>5 DEF ReadEvidence, ChainInv, Types, Call
    <3>2. \A mark \in Marks : [package |-> c.package, source |-> c.source,
                               target |-> c.requested, at |-> now, mark |-> mark] \in Promotion
      BY <2>1 DEF Promotion, Call, ChainInv, Types
    <3>3. HoldsRecord(calls'[s])
      BY <1>4, <2>1, <3>1, <3>2, PromotionIsRecord DEF HoldsRecord
    <3> QED BY <2>2, <2>3, <3>3, PapersStay
  <2> QED BY <1>6, <2>4, <2>5
<1>7. ASSUME NEW s \in Sessions, WriteRecord(s) PROVE PapersTyped'
  <2>1. calls[s] \in Call /\ calls[s].step = "record" /\ calls[s].promotion # NoPromotion
    BY <1>7, RunningCall DEF WriteRecord, PapersTyped, HoldsRecord
  <2>2. calls' = [calls EXCEPT ![s] = calls'[s]] /\ calls'[s].step = "switch" /\ calls'[s].promotion = calls[s].promotion
    BY <1>7, <2>1 DEF WriteRecord, ChainInv, Types, Call
  <2>3. HoldsRecord(calls'[s])
    BY <2>1, <2>2 DEF HoldsRecord
  <2> QED BY <1>7, <2>2, <2>3, PapersStay DEF WriteRecord, records
<1>8. ASSUME NEW s \in Sessions, WriteState(s) \/ WriteActive(s) \/ Fail(s) PROVE PapersTyped'
  BY <1>4, <1>8, PapersStay DEF WriteState, WriteActive, Fail, records
<1>9. ASSUME NEW s \in Sessions, WriteAuthorization(s) PROVE PapersTyped'
  <2> DEFINE a == [package |-> calls[s].package, promotion |-> calls[s].state.promotion]
  <2>1. calls[s].package \in Packages
    BY <1>9, RunningCall DEF WriteAuthorization, Call
  <2>2. authorized' = authorized \cup {a} /\ calls' = [calls EXCEPT ![s] = Idle] /\ revocations' = revocations
    BY <1>9 DEF WriteAuthorization, records
  <2>3. a = [package |-> a.package, promotion |-> a.promotion] /\ a.package \in Packages
    BY <2>1
  <2>4. \A r \in Sessions : HoldsRecord(calls'[r])
    BY <1>4, <2>2 DEF ChainInv, Types, PapersTyped
  <2> HIDE DEF a
  <2> QED BY <2>2, <2>3, <2>4 DEF PapersTyped
<1> QED
  BY <1>2, <1>3, <1>5, <1>6, <1>7, <1>8, <1>9 DEF Next

\* The trust files and the calls keep their types, and a call holds a promotion
\* record exactly while promote writes it and the state.
THEOREM TrustTyped == Spec => []TypeOK
<1>1. Init => PapersTyped
  BY DEF Init, PapersTyped, HoldsRecord, Idle
<1>2. ChainInv /\ ObstacleInv /\ PapersTyped => TypeOK
  <2> SUFFICES ASSUME ChainInv, ObstacleInv, PapersTyped PROVE TypeOK
    OBVIOUS
  <2>1. /\ now \in Times /\ promotions \subseteq Promotion /\ environment \in [Packages -> State]
        /\ active \in Packages \cup {NoPackage} /\ \A s \in Sessions : calls[s] \in Call \cup {Idle}
    BY DEF ChainInv, Types
  <2>2. signatures \subseteq Envelopes /\ reviews \in Seq(Review)
    BY DEF ObstacleInv, ObstacleTypes, RecordsTyped
  <2>3. authorized \subseteq [package : Packages, promotion : Promotion]
    <3> SUFFICES ASSUME NEW a \in authorized PROVE a \in [package : Packages, promotion : Promotion]
      OBVIOUS
    <3>1. a.promotion \in Promotion /\ a.package \in Packages /\ a = [package |-> a.package, promotion |-> a.promotion]
      BY <2>1 DEF PapersTyped, ChainInv, AuthorizationsCite
    <3> QED BY <3>1
  <2>4. \A s \in Sessions :
           Running(s) => (calls[s].promotion # NoPromotion <=> calls[s].step \in {"record", "switch"})
    BY DEF PapersTyped, HoldsRecord, Running
  <2> QED BY <2>1, <2>2, <2>3, <2>4 DEF TypeOK, PapersTyped
<1> QED BY <1>1, <1>2, PapersNext, ChainInvariance, ObstacleInvariance, PTL DEF Spec
=============================================================================
