-------------------------------- MODULE Members --------------------------------
(***************************************************************************)
(* Member administration by the owners (lab/admin.py and its endpoints),   *)
(* with registration, verification and self-service deletion of accounts,  *)
(* and the users router of fastapi-users that is mounted at /api/users.    *)
(* A request reads the rows and applies its guards in one step and commits *)
(* in a later one, with an email sent in between for some; requests of     *)
(* several owners overlap, and a process may end between the two.          *)
(***************************************************************************)
EXTENDS Integers, Sequences, FiniteSets, SequencesExt

CONSTANTS Person,
          Founders,   \* the owners there are at first
          MaxActions, \* MAX_ACTIONS_PER_HOUR; the model's time is one such hour
          MaxEmails,  \* MAX_EMAIL_ACTIONS_PER_HOUR
          MaxOutside  \* bound: accounts that requests outside lab/admin.py meet

ASSUME FoundersArePeople == Founders \subseteq Person /\ Founders # {}

VARIABLES
    member,     \* the users table: [active, verified, admin] by person
    audit,      \* lab_admin_audit: [by, act, of, plain]; plain: the emails it spells out
    deletions,  \* account_deletions: whose deletion was recorded, in order
    request,    \* what each owner has asked for and is not committed: [act, of]
    overlapped, \* history: two requests were in progress at once
    outside     \* history: the accounts changed or removed by another way than
                \* the administration endpoints

mVars == <<member, audit, deletions, request, overlapped, outside>>

Nothing == [act |-> "nothing"]
EmailActs == {"password_reset", "verification_email"}
Acts ==
    EmailActs \cup {"verify", "suspend", "restore", "admin_grant", "admin_revoke", "delete"}

MInit ==
    /\ member = [p \in Founders |-> [active |-> TRUE, verified |-> TRUE, admin |-> TRUE]]
    /\ audit = <<>> /\ deletions = <<>>
    /\ request = [p \in Person |-> Nothing]
    /\ overlapped = FALSE /\ outside = {}

Members == DOMAIN member
Recorded(p) == \E i \in DOMAIN deletions : deletions[i] = p

(* _effective_admins, which is also who the owner dependency lets in. *)
EffectiveAdmins ==
    {p \in Members : member[p].active /\ member[p].verified /\ member[p].admin}

(* _check_rate counts the audit rows of the hour. *)
RowsBy(a, acts) ==
    Cardinality({i \in DOMAIN audit : audit[i].by = a /\ audit[i].act \in acts})
WithinRate(a, act) ==
    /\ RowsBy(a, Acts) < MaxActions
    /\ act \in EmailActs => RowsBy(a, EmailActs) < MaxEmails

(* mutant of MayRevoke: whoever is an admin may be revoked, oneself included    *)
MayRevokeAnyone(a, t) == member[t].admin

(* set_admin keeps one's own access and the last admin. *)
MayRevoke(a, t) == member[t].admin /\ t # a /\ EffectiveAdmins \ {t} # {}

(* The guards of the other operations; of those that ask for it, a wrong *)
(* confirmation address refuses as well.                                 *)
MayReset(t) == member[t].active
MayResend(t) == member[t].active /\ ~member[t].verified
MayVerify(t) == ~member[t].verified
MaySuspend(a, t) == t # a /\ ~member[t].admin /\ member[t].active
MayRestore(t) == ~member[t].active
MayGrant(t) == ~member[t].admin /\ member[t].active /\ member[t].verified
MayDelete(a, t) == t # a /\ ~member[t].admin

Permitted(a, act, t) ==
    \/ act = "password_reset" /\ MayReset(t)
    \/ act = "verification_email" /\ MayResend(t)
    \/ act = "verify" /\ MayVerify(t)
    \/ act = "suspend" /\ MaySuspend(a, t)
    \/ act = "restore" /\ MayRestore(t)
    \/ act = "admin_grant" /\ MayGrant(t)
    \/ act = "admin_revoke" /\ MayRevoke(a, t)
    \/ act = "delete" /\ MayDelete(a, t)

(* An endpoint loads the actor and the target, and the operation decides. *)
Ask(a, act, t) ==
    /\ request[a] = Nothing /\ a \in EffectiveAdmins /\ t \in Members
    /\ Permitted(a, act, t) /\ WithinRate(a, act)
    /\ request' = [request EXCEPT ![a] = [act |-> act, of |-> t]]
    /\ overlapped' = (overlapped \/ \E b \in Person \ {a} : request[b] # Nothing)
    /\ UNCHANGED <<member, audit, deletions, outside>>

(* The one column an operation writes, whatever the row has become since. *)
Effect(act, m) ==
    CASE act = "verify" -> [m EXCEPT !.verified = TRUE]
      [] act \in {"suspend", "restore"} -> [m EXCEPT !.active = (act = "restore")]
      [] act \in {"admin_grant", "admin_revoke"} -> [m EXCEPT !.admin = (act = "admin_grant")]
      [] OTHER -> m

Row(a, act, t, plain) == [by |-> a, act |-> act, of |-> t, plain |-> plain]

Done(a) ==
    /\ request' = [request EXCEPT ![a] = Nothing]
    /\ UNCHANGED <<overlapped, outside>>

(* The email actions write no account column: their row is added even when the *)
(* target is gone by now.  An update of a row that is gone fails, and with it  *)
(* the audit row of the same transaction.                                      *)
Commit(a) ==
    LET act == request[a].act
        t == request[a].of
    IN /\ act \in Acts \ {"delete"}
       /\ act \in EmailActs \/ t \in Members
       /\ member' = [p \in Members |-> IF p = t THEN Effect(act, member[p]) ELSE member[p]]
       /\ audit' = Append(audit, Row(a, act, t, {a, t}))
       /\ Done(a) /\ UNCHANGED deletions

(* delete_member masks the earlier rows that name the target and, through    *)
(* delete_account, removes the account and its rows in the same transaction. *)
Masked(t) == [i \in DOMAIN audit |-> [audit[i] EXCEPT !.plain = @ \ {t}]]

CommitDelete(a) ==
    LET t == request[a].of
    IN /\ request[a].act = "delete"
       /\ member' = [p \in Members \ {t} |-> member[p]]
       /\ audit' = Append(Masked(t), Row(a, "delete", t, {a}))
       /\ deletions' = Append(deletions, t)
       /\ Done(a)

(* The email or the commit fails, or the process ends: nothing is written. *)
Abandon(a) ==
    /\ request[a] # Nothing
    /\ request' = [request EXCEPT ![a] = Nothing]
    /\ UNCHANGED <<member, audit, deletions, overlapped, outside>>

-----------------------------------------------------------------------------
(* Registration, which leaves the address unverified; the link in the email *)
(* sent by on_after_register or on_after_request_verify verifies it.  An     *)
(* account's id is never used again.                                        *)
SignUp(p) ==
    /\ p \notin Members /\ ~Recorded(p) /\ p \notin outside
    /\ member' = [q \in Members \cup {p} |-> IF q \in Members THEN member[q]
                    ELSE [active |-> TRUE, verified |-> FALSE, admin |-> FALSE]]
    /\ UNCHANGED <<audit, deletions, request, overlapped, outside>>

VerifyOwn(p) ==
    /\ p \in Members /\ member[p].active /\ ~member[p].verified
    /\ member' = [member EXCEPT ![p].verified = TRUE]
    /\ UNCHANGED <<audit, deletions, request, overlapped, outside>>

(* A request about p that none of the guards, the audit or the rate limit of *)
(* lab/admin.py sees, made in one step, perhaps while owners' requests are    *)
(* under way.                                                                 *)
Outside(p) ==
    /\ p \in outside \/ Cardinality(outside) < MaxOutside
    /\ outside' = outside \cup {p}
    /\ overlapped' = (overlapped \/ \E b \in Person : request[b] # Nothing)

Erase(p) == member' = [q \in Members \ {p} |-> member[q]]

(* delete_own_account: any active member, an owner too. *)
DeleteOwn(p) ==
    /\ p \in Members /\ member[p].active
    /\ Erase(p) /\ Outside(p)
    /\ deletions' = Append(deletions, p)
    /\ UNCHANGED <<audit, request>>

(* PATCH /api/users/me with a new address, which is not verified yet. *)
ChangeEmail(p) ==
    /\ p \in Members /\ member[p].active
    /\ member' = [member EXCEPT ![p].verified = FALSE] /\ Outside(p)
    /\ UNCHANGED <<audit, deletions, request>>

(* PATCH and DELETE /api/users/{id}: by an active superuser, verified or not, *)
(* of any account, their own included, and whatever flags they send.         *)
Superuser(a) == a \in Members /\ member[a].active /\ member[a].admin

PatchUser(a, t) ==
    /\ Superuser(a) /\ t \in Members
    /\ \E active, verified, admin \in BOOLEAN :
         member' = [member EXCEPT ![t] =
                      [active |-> active, verified |-> verified, admin |-> admin]]
    /\ Outside(t) /\ UNCHANGED <<audit, deletions, request>>

RemoveUser(a, t) ==
    /\ Superuser(a) /\ t \in Members
    /\ Erase(t) /\ Outside(t) /\ UNCHANGED <<audit, deletions, request>>

MNext ==
    \E p \in Person :
        \/ \E act \in Acts, t \in Members : Ask(p, act, t)
        \/ request[p] # Nothing /\ (Commit(p) \/ CommitDelete(p))
        \/ Abandon(p) \/ SignUp(p) \/ VerifyOwn(p)
        \/ DeleteOwn(p) \/ ChangeEmail(p)
        \/ \E t \in Members : PatchUser(p, t) \/ RemoveUser(p, t)

MSpec == MInit /\ [][MNext]_mVars

-----------------------------------------------------------------------------
(* What nothing guards: an owner who gives up their own rights, by deleting  *)
(* their account, by changing its address or through the users router, and a *)
(* superuser who is no owner, being unverified, taking an owner's.           *)
Unguarded ==
    \E p \in Person :
        \/ DeleteOwn(p) \/ ChangeEmail(p)
        \/ \E t \in Members : /\ t = p \/ p \notin EffectiveAdmins
                              /\ PatchUser(p, t) \/ RemoveUser(p, t)

(* The site loses its last owner in no other way: as long as requests do not *)
(* overlap, whatever the owners grant, revoke, suspend and delete, and        *)
(* whatever they do to each other through the users router, leaves one.       *)
OwnerRemains ==
    [][EffectiveAdmins # {} /\ EffectiveAdmins' = {} => overlapped' \/ Unguarded]_mVars

(* Claimed by admin.py: "You can't revoke the last remaining admin."  Two *)
(* owners who revoke each other at the same time do.                      *)
RevocationLeavesAnAdmin ==
    outside = {} /\ audit # <<>> /\ Last(audit).act = "admin_revoke" => EffectiveAdmins # {}

-----------------------------------------------------------------------------
MembersTypeOK ==
    /\ Members \subseteq Person
    /\ member \in [Members -> [active : BOOLEAN, verified : BOOLEAN, admin : BOOLEAN]]
    /\ request \in [Person -> {Nothing} \cup [act : Acts, of : Person]]
    /\ overlapped \in BOOLEAN /\ outside \subseteq Person

(* What keeps an owner: whoever has a request under way is one, is the only one *)
(* with a request under way, and takes nothing away from themselves.            *)
AskerRemains ==
    \A a \in Person : request[a] # Nothing =>
        /\ \A b \in Person : request[b] # Nothing => b = a
        /\ a \in EffectiveAdmins
        /\ request[a].act \in {"suspend", "admin_revoke", "delete"} => request[a].of # a

MembersInv == MembersTypeOK /\ (overlapped \/ AskerRemains)
=============================================================================
