------------------------------ MODULE ComputeApi ------------------------------
(***************************************************************************)
(* The keypairs and fixed IPs controllers of the compute API.             *)
(*                                                                         *)
(* KeypairController handles one request at a time against the key pairs *)
(* of KeypairAPI: create (generate or import), delete, show and index,    *)
(* each at a microversion that decides whether the body's type and       *)
(* user_id and the query's user_id, limit and marker are honoured, each   *)
(* authorized by the keypairs policy for the user it acts on, each        *)
(* mapping KeypairAPI's exceptions to HTTP errors.  FixedIPController     *)
(* answers every request with 410 Gone.                                   *)
(*                                                                         *)
(* A microversion 2.x is the number x.  KeypairAPI is taken at its        *)
(* interface: the exceptions it may raise for a request are the ones the *)
(* controller catches, and which one comes first is left open.           *)
(***************************************************************************)
EXTENDS Naturals, FiniteSets, TLC

CONSTANTS
  Users,      \* user ids
  Policy,     \* <<caller, target>> pairs the keypairs policy rules allow
  Names,      \* key pair names (as common.normalize_name leaves them)
  Versions,   \* microversions requested
  Limit,      \* the key_pairs quota of a user
  NoValue,    \* None
  Empty       \* the empty string

VARIABLES
  keypairs,   \* keypairs[u]: name -> key type, the key pairs of user u
  resp        \* the last response: request, caller, user acted on, status

vars == <<keypairs, resp>>

KeyTypes == {"ssh", "x509"}
UserArgs == Users \cup {NoValue, Empty}
Ops == {"create", "delete", "show", "index", "fixed_ip", "none"}

Init ==
  /\ keypairs = [u \in Users |-> [n \in {} |-> "ssh"]]
  /\ resp = [op |-> "none", caller |-> NoValue, user |-> NoValue,
             version |-> 0, status |-> 0, private |-> FALSE]

Respond(op, caller, user, v, status, private) ==
  resp' = [op |-> op, caller |-> caller, user |-> user,
           version |-> v, status |-> status, private |-> private]

\* Faulty variant: the user_id of the request is honoured at every version.
RequestedUserUngated(v, arg) == arg

\* "if api_version_request.is_supported(req, '2.10')": the user_id of the
\* body (create) or the first user_id of the query string, else None.
RequestedUser(v, arg) == IF v >= 10 THEN arg ELSE NoValue

\* user_id = user_id or context.user_id
Target(caller, arg) == IF arg \in Users THEN arg ELSE caller

\* Faulty variant: the policy checked against the caller itself.
AuthorizedSelf(caller, user) == <<caller, caller>> \in Policy

\* context.can(kp_policies.POLICY_ROOT % op, target={'user_id': user_id})
Authorized(caller, user) == <<caller, user>> \in Policy

\* Faulty variant: params['type'] without a default.
KeyTypeNoDefault(type) == type

\* params.get('type', keypair_obj.KEYPAIR_TYPE_SSH)
KeyType(type) == IF type = NoValue THEN "ssh" ELSE type

\* The create schemas by microversion: no type before 2.2, no user_id
\* before 2.10, a public_key from 2.92 on.
CreateBody(v, type, arg, pk) ==
  /\ v < 2 => type = NoValue
  /\ v < 10 => arg = NoValue
  /\ v >= 92 => pk # NoValue

\* create and _create: import the public_key, or generate a key pair; 201
\* from 2.2 on (200 before); the private key only when generated.
Create ==
  \E caller \in Users, v \in Versions, n \in Names, type \in KeyTypes \cup {NoValue},
     arg \in UserArgs, pk \in {NoValue, "valid", "invalid"} :
    /\ CreateBody(v, type, arg, pk)
    /\ LET u == Target(caller, RequestedUser(v, arg))
           kt == KeyType(type)
           Fail(status) == Respond("create", caller, u, v, status, FALSE)
       IN  IF ~Authorized(caller, u) THEN Fail(403) /\ UNCHANGED keypairs
           ELSE \/ Cardinality(DOMAIN keypairs[u]) >= Limit      \* KeypairLimitExceeded
                   /\ Fail(403) /\ UNCHANGED keypairs
                \/ pk = "invalid" /\ Fail(400) /\ UNCHANGED keypairs  \* InvalidKeypair
                \/ n \in DOMAIN keypairs[u] /\ Fail(409) /\ UNCHANGED keypairs  \* KeyPairExists
                \/ /\ Cardinality(DOMAIN keypairs[u]) < Limit
                   /\ pk # "invalid" /\ n \notin DOMAIN keypairs[u]
                   /\ keypairs' = [keypairs EXCEPT ![u] = (n :> kt) @@ @]
                   /\ Respond("create", caller, u, v, IF v >= 2 THEN 201 ELSE 200,
                              pk = NoValue)

\* delete and _delete: 204 from 2.2 on (202 before); KeypairNotFound: 404.
Delete ==
  \E caller \in Users, v \in Versions, n \in Names, arg \in UserArgs :
    LET u == Target(caller, RequestedUser(v, arg)) IN
    IF ~Authorized(caller, u)
    THEN Respond("delete", caller, u, v, 403, FALSE) /\ UNCHANGED keypairs
    ELSE IF n \notin DOMAIN keypairs[u]
    THEN Respond("delete", caller, u, v, 404, FALSE) /\ UNCHANGED keypairs
    ELSE /\ keypairs' = [keypairs EXCEPT ![u] = [m \in DOMAIN @ \ {n} |-> @[m]]]
         /\ Respond("delete", caller, u, v, IF v >= 2 THEN 204 ELSE 202, FALSE)

\* show and _show: the key pair, or 404 for KeypairNotFound.
Show ==
  \E caller \in Users, v \in Versions, n \in Names, arg \in UserArgs :
    LET u == Target(caller, RequestedUser(v, arg)) IN
    /\ Respond("show", caller, u, v,
               IF ~Authorized(caller, u) THEN 403
               ELSE IF n \in DOMAIN keypairs[u] THEN 200 ELSE 404, FALSE)
    /\ UNCHANGED keypairs

\* index and _index: limit and marker from 2.35 on; MarkerNotFound: 400.
Index ==
  \E caller \in Users, v \in Versions, arg \in UserArgs, marker \in Names \cup {NoValue} :
    LET u == Target(caller, RequestedUser(v, arg))
        m == IF v >= 35 THEN marker ELSE NoValue
    IN  /\ Respond("index", caller, u, v,
                   IF ~Authorized(caller, u) THEN 403
                   ELSE IF m # NoValue /\ m \notin DOMAIN keypairs[u] THEN 400
                   ELSE 200, FALSE)
        /\ UNCHANGED keypairs

\* FixedIPController.show, reserve and unreserve: HTTPGone.
FixedIP ==
  \E caller \in Users, v \in Versions :
    /\ Respond("fixed_ip", caller, NoValue, v, 410, FALSE)
    /\ UNCHANGED keypairs

Next == Create \/ Delete \/ Show \/ Index \/ FixedIP

Spec == Init /\ [][Next]_vars

-----------------------------------------------------------------------------
(* Properties *)

TypeOK ==
  /\ \A u \in Users : DOMAIN keypairs[u] \subseteq Names
                      /\ \A n \in DOMAIN keypairs[u] : keypairs[u][n] \in KeyTypes
  /\ resp.op \in Ops

Changed(u) == keypairs'[u] # keypairs[u]

(* A request changes the key pairs of user u only if the keypairs policy *)
(* lets its caller act on u: whatever user_id the body or the query      *)
(* names, create and delete touch no key pair the check did not cover.   *)
OwnerScoped ==
  [][\A u \in Users : Changed(u) => <<resp'.caller, u>> \in Policy]_vars

(* Before microversion 2.10 a request acts on its caller's own key pairs *)
(* only, even an admin's whose query string names another user_id.       *)
VersionGatesUserId ==
  [][\A u \in Users : Changed(u) /\ resp'.version < 10 => u = resp'.caller]_vars

(* The create docstring: "Starting in API microversion 2.91, keypair      *)
(* generation is no longer permitted": a key pair created with a private *)
(* key returned is created below 2.91.                                    *)
NoGenerationFrom291 ==
  [][\A u \in Users : Changed(u) /\ resp'.private => resp'.version < 91]_vars

=============================================================================
