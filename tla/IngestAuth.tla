------------------------------ MODULE IngestAuth ------------------------------
(***************************************************************************)
(* The front door of the ingest service: Settings.from_env                 *)
(* (src/ingest/config.py) on the environment of a revision and the secret  *)
(* mounted into it, and verify_signing_key (src/ingest/security.py).       *)
(*                                                                         *)
(* The secret is mounted as `latest`, which is resolved when an instance   *)
(* starts (src/infra/cloudrun.tf), so instances of one revision may hold   *)
(* different versions.  Something that raises is a set without an element. *)
(***************************************************************************)
EXTENDS Integers, Sequences, FiniteSets

CONSTANTS
    Instance,
    Key,        \* signing keys of the provider
    MaxVersions \* bound of the model: versions added to the secret

VARIABLES
    versions,  \* the versions of the secret, oldest first
    env,       \* the variables of the revision that serves
    settings,  \* what each running instance built at its start: none or one
    resolved   \* the version of the secret each instance started with

vars == <<versions, env, settings, resolved>>

Unset == "unset"

(* A secret, by its text and whether a newline trails it; "" is blank. *)
Secret == [text : Key \cup {""}, newline : BOOLEAN]

(* What may be set on a revision; max is MAX_BODY_BYTES, and WEBHOOK_SOURCE *)
(* is taken like the header.                                               *)
Environment == [max : {Unset, "", "few", "-1", "0", "1000"},
                header : {Unset, "", "X-Key"}]

Number == [text \in {"-1", "0", "1000"} |->
              IF text = "1000" THEN 1000 ELSE IF text = "0" THEN 0 ELSE -1]

(* Fault: the secret is taken as it was stored. *)
RequireAsStored(secret) ==
    {IF secret.newline THEN "with newline" ELSE t : t \in {secret.text} \ {""}}

Require(secret) == {secret.text} \ {""}

HeaderName(e) == IF e.header = Unset THEN "X-SigningKey" ELSE e.header

(* int() raises for a blank and for a text; nothing else is looked at. *)
FromEnv(e, secret) ==
    [signing_secret : Require(secret),
     signing_key_header : {HeaderName(e)},
     max_body_bytes : IF e.max = Unset THEN {1024 * 1024}
                      ELSE {Number[t] : t \in {e.max} \cap DOMAIN Number}]

VerifySigningKey(expected, provided) == expected # "" /\ provided # "" /\ expected = provided

(* A request, by the one header that may carry a key and its value; a      *)
(* header that was sent has a name.                                        *)
Delivery == [header : {"X-SigningKey", "X-Key"}, key : Key \cup {""}]

(* request.headers.get(name): None, and like "" no key, unless it is sent. *)
Provided(q, name) == IF q.header = name THEN q.key ELSE ""

(* The delivery q is taken for authentic by i. *)
Admits(i, q) == \E s \in settings[i] :
                    VerifySigningKey(s.signing_secret, Provided(q, s.signing_key_header))

Latest == versions[Len(versions)]
-----------------------------------------------------------------------------
Init == /\ versions \in {<<s>> : s \in Secret}
        /\ env \in Environment
        /\ FromEnv(env, Latest) # {}
        /\ settings = [i \in Instance |-> {}]
        /\ resolved = [i \in Instance |-> 0]

(* gcloud secrets versions add: by hand, at any time, any text. *)
AddVersion(secret) ==
    /\ Len(versions) < MaxVersions
    /\ versions' = Append(versions, secret)
    /\ UNCHANGED <<env, settings, resolved>>

(* A new revision serves when it starts; otherwise the old one goes on.    *)
(* The instances of the old one are stopped.                               *)
Deploy(e) ==
    /\ FromEnv(e, Latest) # {}
    /\ env' = e
    /\ settings' = [i \in Instance |-> {}]
    /\ resolved' = [i \in Instance |-> 0]
    /\ UNCHANGED versions

(* An instance starts: it serves, or crashes at import. *)
Start(i) ==
    /\ settings[i] = {}
    /\ FromEnv(env, Latest) # {}
    /\ settings' = [settings EXCEPT ![i] = FromEnv(env, Latest)]
    /\ resolved' = [resolved EXCEPT ![i] = Len(versions)]
    /\ UNCHANGED <<versions, env>>

Stop(i) ==
    /\ settings[i] # {}
    /\ settings' = [settings EXCEPT ![i] = {}]
    /\ resolved' = [resolved EXCEPT ![i] = 0]
    /\ UNCHANGED <<versions, env>>

Next == \/ \E s \in Secret : AddVersion(s)
        \/ \E e \in Environment : Deploy(e)
        \/ \E i \in Instance : Start(i) \/ Stop(i)

Spec == Init /\ [][Next]_vars
-----------------------------------------------------------------------------
(* What a running instance lets in is the key of the version it started    *)
(* with, newline or not, under the header its revision names, and no       *)
(* other: neither a rotated key too early nor a retired one after the      *)
(* instance was recycled, and nobody where that name is blank.             *)
KeyInForce ==
    \A i \in Instance : \A q \in Delivery :
        settings[i] # {} =>
            (Admits(i, q) <=> /\ q.header = HeaderName(env)
                              /\ q.key # "" /\ q.key = versions[resolved[i]].text)
=============================================================================
