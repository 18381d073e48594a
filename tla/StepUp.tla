-------------------------------- MODULE StepUp --------------------------------
(***************************************************************************)
(* The key step-up of an owner (lab/security_keys.py and the endpoints of  *)
(* api/routes/lab_webauthn.py): ceremonies of two requests over a stored   *)
(* single-use challenge, step-ups and trusted devices that expire,         *)
(* recovery codes, and the enforcement mode that an operator may change    *)
(* between restarts.  A request is one transaction; ceremonies of several  *)
(* browsers interleave.  Verification itself is py_webauthn's.             *)
(***************************************************************************)
EXTENDS Integers, Sequences, FiniteSets, SequencesExt

CONSTANTS Browser, KeyId,
          Codes,         \* RECOVERY_CODE_COUNT
          MaxOpen,       \* MAX_OPEN_CHALLENGES
          MaxKeys,       \* MAX_KEYS
          MaxDevices,    \* MAX_DEVICES
          MaxFailures,   \* MAX_RECOVERY_FAILURES_PER_HOUR
          Ttl,           \* CHALLENGE_TTL
          StepupFor,     \* lab_stepup_hours
          TrustFor,      \* trusted_device_days
          Hour,          \* the window in which failures count
          MaxChallenges, \* bound: challenges ever issued
          SHorizon       \* bound on the clock

ASSUME StepUpAssumption == StepupFor \in Nat /\ TrustFor \in Nat

VARIABLES snow, enforcement, keys, codes,
          failures,   \* when recovery codes failed, within the hour
          challenges, \* the open rows, oldest first: [id, purpose, until]
          issued,     \* challenges issued so far
          held,       \* the challenge each browser last received; 0: none
          stepup,     \* until when the step-up of each browser's cookie lives
          device,     \* the device rows, by browser: [until, seen]
          proved      \* history: when each browser last proved a step-up and a trust

sVars == <<snow, enforcement, keys, codes, failures, challenges, issued, held,
           stepup, device, proved>>

Enforcement == {"auto", "always", "off"}

SInit ==
    /\ snow = 1 /\ enforcement \in Enforcement /\ keys = {} /\ codes = 0 /\ failures = <<>>
    /\ challenges = <<>> /\ issued = 0 /\ held = [b \in Browser |-> 0]
    /\ stepup = [b \in Browser |-> 0] /\ device = <<>>
    /\ proved = [b \in Browser |-> [step |-> 0, trust |-> 0]]

-----------------------------------------------------------------------------
(* active_stepup and trusted_device: the cookies of browser b prove something. *)
Stepped(b) == stepup[b] > snow
TrustedRow(d) == TrustFor > 0 /\ device[d].until > snow
Trusted(b) == b \in DOMAIN device /\ TrustedRow(b)

(* user_locked, for a superuser. *)
LockedOut(b) ==
    /\ enforcement # "off"
    /\ keys # {} \/ enforcement = "always"
    /\ ~Stepped(b)
    /\ ~(keys # {} /\ Trusted(b))

(* The dependencies of the endpoints: owner, fresh_owner and registrar. *)
UnlockedOwner(b) == ~LockedOut(b)
Fresh(b) == keys # {} /\ enforcement # "off" => Stepped(b)
FreshOwner(b) == UnlockedOwner(b) /\ Fresh(b)
Registrar(b) == Fresh(b)

(* _store_challenge drops the expired rows and all but the newest few. *)
Kept(cs) ==
    LET live == SelectSeq(cs, LAMBDA c : c.until > snow)
        keep == MaxOpen - 1
    IN  SubSeq(live, IF Len(live) > keep THEN Len(live) - keep + 1 ELSE 1, Len(live))

(* registration_options and authentication_options. *)
Options(b, purpose) ==
    /\ issued < MaxChallenges
    /\ IF purpose = "register" THEN Registrar(b) /\ Cardinality(keys) < MaxKeys
       ELSE keys # {}
    /\ issued' = issued + 1
    /\ held' = [held EXCEPT ![b] = issued + 1]
    /\ challenges' = Append(Kept(challenges),
                            [id |-> issued + 1, purpose |-> purpose, until |-> snow + Ttl])
    /\ UNCHANGED <<snow, enforcement, keys, codes, failures, stepup, device,
                   proved>>

(* _consume_challenge: the row of this purpose that the response echoes is *)
(* deleted before anything is verified; an expired one is refused.         *)
Echoed(b, purpose) == {i \in DOMAIN challenges :
                          challenges[i].id = held[b] /\ challenges[i].purpose = purpose}
Consume(b, purpose) == \E i \in Echoed(b, purpose) : challenges' = RemoveAt(challenges, i)
Unexpired(b, purpose) == \E i \in Echoed(b, purpose) : challenges[i].until > snow

(* The response is refused after its challenge was spent: expired, not verified, *)
(* an unknown or duplicate key, or one too many.                                 *)
Refuse(b, purpose) ==
    /\ Consume(b, purpose)
    /\ UNCHANGED <<snow, enforcement, keys, codes, failures, issued, held, stepup,
                   device, proved>>

StepSession(b) ==
    /\ stepup' = [stepup EXCEPT ![b] = snow + StepupFor]
    /\ proved' = [proved EXCEPT ![b].step = snow]

(* ensure_device on every ceremony and on status: a new browser gets a row, and *)
(* beyond the cap the rows seen longest ago go, but never a trusted one.        *)
Untrustworthy == {d \in DOMAIN device : ~TrustedRow(d)}

See(b, until) ==
    IF b \in DOMAIN device
    THEN device' = [device EXCEPT ![b] = [until |-> until, seen |-> snow]]
    ELSE LET excess == Cardinality(DOMAIN device) - (MaxDevices - 1)
             spare == Untrustworthy
         IN \E old \in SUBSET spare :
              /\ Cardinality(old) = IF excess <= 0 THEN 0
                                    ELSE Min({excess, Cardinality(spare)})
              /\ \A d \in old, k \in spare \ old : device[d].seen <= device[k].seen
              /\ device' = [d \in (DOMAIN device \ old) \cup {b} |->
                              IF d = b THEN [until |-> until, seen |-> snow] ELSE device[d]]

Until(b) == IF b \in DOMAIN device THEN device[b].until ELSE 0

(* register_key: only the first key issues recovery codes and grants a step-up.  *)
Register(b, k) ==
    /\ Registrar(b) /\ Unexpired(b, "register") /\ Consume(b, "register")
    /\ k \notin keys /\ Cardinality(keys) < MaxKeys
    /\ keys' = keys \cup {k}
    /\ IF keys = {} THEN codes' = Codes /\ StepSession(b)
       ELSE UNCHANGED <<codes, stepup, proved>>
    /\ See(b, Until(b))
    /\ UNCHANGED <<snow, enforcement, failures, issued, held>>

(* authenticate, with a key of the account. *)
Authenticate(b) ==
    /\ keys # {} /\ Unexpired(b, "authenticate") /\ Consume(b, "authenticate")
    /\ StepSession(b) /\ See(b, Until(b))
    /\ UNCHANGED <<snow, enforcement, keys, codes, failures, issued, held>>

(* trust_this_device: a fresh assertion, and this browser is trusted for days. *)
Trust(b) ==
    /\ TrustFor > 0
    /\ keys # {} /\ Unexpired(b, "authenticate") /\ Consume(b, "authenticate")
    /\ See(b, snow + TrustFor)
    /\ proved' = [proved EXCEPT ![b].trust = snow]
    /\ UNCHANGED <<snow, enforcement, keys, codes, failures, issued, held, stepup>>

(* use_recovery_code; key_holder asks for nothing else of an owner. *)
FailuresThisHour == SelectSeq(failures, LAMBDA t : t >= snow - Hour)
Recover(b) ==
    /\ Len(FailuresThisHour) < MaxFailures /\ codes > 0
    /\ codes' = codes - 1 /\ StepSession(b) /\ See(b, Until(b))
    /\ failures' = FailuresThisHour
    /\ UNCHANGED <<snow, enforcement, keys, challenges, issued, held>>

WrongCode ==
    /\ Len(FailuresThisHour) < MaxFailures
    /\ failures' = Append(FailuresThisHour, snow)
    /\ UNCHANGED <<snow, enforcement, keys, codes, challenges, issued, held,
                   stepup, device, proved>>

RegenerateCodes(b) ==
    /\ FreshOwner(b) /\ keys # {}
    /\ codes' = Codes
    /\ UNCHANGED <<snow, enforcement, keys, failures, challenges, issued, held,
                   stepup, device, proved>>

(* delete_key keeps the last key while keys are required. *)
DeleteKey(b, k) ==
    /\ FreshOwner(b) /\ k \in keys
    /\ keys # {k} \/ enforcement = "off"
    /\ keys' = keys \ {k}
    /\ UNCHANGED <<snow, enforcement, codes, failures, challenges, issued, held,
                   stepup, device, proved>>

(* mutant of Forgotten: the step-up goes but the device keeps its trust *)
StillTrusted(d) == [e \in DOMAIN device |-> device[e]]

(* lock_this_browser, untrust_device and forget_device. *)
Forgotten(d) == [e \in DOMAIN device |-> IF e = d THEN [device[e] EXCEPT !.until = 0]
                                         ELSE device[e]]

LockNow(b) ==
    /\ stepup' = [stepup EXCEPT ![b] = 0]
    /\ device' = Forgotten(b)
    /\ proved' = [proved EXCEPT ![b] = [step |-> 0, trust |-> 0]]
    /\ UNCHANGED <<snow, enforcement, keys, codes, failures, challenges, issued,
                   held>>

EndTrust(b, d) ==
    /\ UnlockedOwner(b) /\ d \in DOMAIN device
    /\ \/ device' = Forgotten(d)
       \/ device' = [e \in DOMAIN device \ {d} |-> device[e]]
    /\ proved' = [proved EXCEPT ![d].trust = 0]
    /\ UNCHANGED <<snow, enforcement, keys, codes, failures, challenges, issued,
                   held, stepup>>

(* The operator sets LAB_REQUIRE_HARDWARE_KEY and restarts. *)
Reconfigure ==
    /\ \E m \in Enforcement \ {enforcement} : enforcement' = m
    /\ UNCHANGED <<snow, keys, codes, failures, challenges, issued, held, stepup,
                   device, proved>>

SAdvance ==
    /\ snow < SHorizon /\ snow' = snow + 1
    /\ UNCHANGED <<enforcement, keys, codes, failures, challenges, issued, held,
                   stepup, device, proved>>

SNext ==
    \/ WrongCode \/ Reconfigure \/ SAdvance
    \/ \E b \in Browser :
         \/ \E p \in {"register", "authenticate"} : Options(b, p) \/ Refuse(b, p)
         \/ \E k \in KeyId : Register(b, k) \/ DeleteKey(b, k)
         \/ Authenticate(b) \/ Trust(b) \/ Recover(b) \/ RegenerateCodes(b) \/ LockNow(b)
         \/ \E d \in Browser : EndTrust(b, d)

SSpec == SInit /\ [][SNext]_sVars

-----------------------------------------------------------------------------
(* While keys are enforced, a browser acts only within the hours after a key or *)
(* a code was used on it, or the days after it was trusted with a key; and not  *)
(* at all after it was locked, or its trust was ended, since.                   *)
UnlockedByProof ==
    \A b \in Browser : keys # {} /\ enforcement # "off" /\ UnlockedOwner(b) =>
        \/ proved[b].step # 0 /\ snow < proved[b].step + StepupFor
        \/ proved[b].trust # 0 /\ snow < proved[b].trust + TrustFor

-----------------------------------------------------------------------------
ProofsTypeOK ==
    /\ snow \in Nat \ {0}
    /\ stepup \in [Browser -> Nat]
    /\ DOMAIN device \subseteq Browser
    /\ device \in [DOMAIN device -> [until : Nat, seen : Nat]]
    /\ proved \in [Browser -> [step : Nat, trust : Nat]]

(* A step-up and a trust that are not spent are those of the last proof. *)
ProofsHeld ==
    /\ \A b \in Browser : stepup[b] # 0 =>
           proved[b].step # 0 /\ stepup[b] = proved[b].step + StepupFor
    /\ \A d \in DOMAIN device : device[d].until # 0 =>
           proved[d].trust # 0 /\ device[d].until = proved[d].trust + TrustFor

StepUpInv == ProofsTypeOK /\ ProofsHeld
=============================================================================
