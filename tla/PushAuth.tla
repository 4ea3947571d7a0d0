------------------------------- MODULE PushAuth -------------------------------
(***************************************************************************)
(* The front door of the processor: what Settings.from_env                 *)
(* (src/processor/config.py) makes of the environment of a revision, and   *)
(* whom the push route then lets in (src/processor/app.py, security.py).   *)
(*                                                                         *)
(* Something that raises is a set without an element, something that       *)
(* returns is the set of its result.  A value of the environment is its    *)
(* text; plain says whether all of them are typed without blanks around    *)
(* and, where that matters, capitals.                                      *)
(***************************************************************************)
EXTENDS Integers, FiniteSets

CONSTANTS
    PushAccount, OtherAccount,  \* email claims: the push identity, any other
    ThisService, OtherService,  \* audiences
    MaxTime                     \* bound of the model: the clock

VARIABLES
    env,      \* the environment of the revision that serves
    serving,  \* the settings it built from that
    now,      \* the clock
    keysUp    \* can Google's public keys be fetched?

vars == <<env, serving, now, keysUp>>

Modes == {"iam", "none", "oidc"}

DefaultTtl == 3600
DefaultMaxEntries == 10000

(* What int() makes of a text; "few" stands for any that is not a number. *)
Number == [text \in {"0", "1"} |-> IF text = "1" THEN 1 ELSE 0]

Unset == "unset"

(* env.get(key, "").strip(), and .lower() for the mode. *)
Stripped(e, key) == IF e[key] = Unset THEN "" ELSE e[key]

(* Fault: a revision without a mode trusts the platform. *)
ModeOrIam(e) == IF e.mode = Unset THEN {"iam"} ELSE {Stripped(e, "mode")} \cap Modes

Mode(e) == {Stripped(e, "mode")} \cap Modes

(* Fault: an expectation is kept as it was typed. *)
RequireAsTyped(e, key) ==
    {IF e.plain THEN t ELSE "typed otherwise" : t \in {Stripped(e, key)} \ {""}}

Require(e, key) == {Stripped(e, key)} \ {""}

(* An absent bound has a default; a blank one, a text and less than 1 raise. *)
PositiveInt(e, key, default) ==
    IF e[key] = Unset THEN {default}
    ELSE {n \in {Number[t] : t \in {Stripped(e, key)} \cap DOMAIN Number} : n >= 1}

FromEnv(e) ==
    LET Expected(key) == IF Mode(e) = {"oidc"} THEN Require(e, key) ELSE {Unset}
    IN  [mode : Mode(e),
         account : Expected("account"), audience : Expected("audience"),
         ttl : PositiveInt(e, "ttl", DefaultTtl),
         entries : PositiveInt(e, "entries", DefaultMaxEntries)]
-----------------------------------------------------------------------------
(* Tokens and headers *)

(* exp 0: no expiry, or one that is not a number. *)
Token == [signed : BOOLEAN, aud : {ThisService, OtherService},
          email : {PushAccount, OtherAccount}, verified : BOOLEAN, exp : 0 .. MaxTime + 1]

(* The Authorization header, split at its first blank; scheme "" is a      *)
(* request without the header.                                             *)
Header == [scheme : {"", "Basic", "Bearer", "bearer"}, 
           credential : {{}} \cup {{t} : t \in Token}]

BearerToken(h) == IF h.scheme \in {"Bearer", "bearer"} THEN h.credential ELSE {}

(* google.oauth2.id_token: the signature and the audience; the keys are    *)
(* fetched, and fetching may fail.                                         *)
Decode(token, audience) ==
    {t \in {token} : keysUp /\ t.signed /\ t.aud = audience}

(* Fault: Google's signature is taken for ours. *)
VerifyAnyPrincipal(h, audience, account) ==
    \E t \in BearerToken(h) : \E claims \in Decode(t, audience) :
        claims.verified /\ claims.exp > now

VerifyPushToken(h, audience, account) ==
    \E t \in BearerToken(h) : \E claims \in Decode(t, audience) :
        claims.email = account /\ claims.verified /\ claims.exp > now

(* The push route goes on past its first check. *)
Admits(h) ==
    serving.mode = "oidc" =>
        h.scheme # "" /\ VerifyPushToken(h, serving.audience, serving.account)
-----------------------------------------------------------------------------
(* Variables unset, blank, wrong or right.  An account or audience that is *)
(* unset is blank, by the default of get; a wrong one is somebody else's.  *)
Environment == [mode : Modes \cup {Unset, "", "oicd"},
                account : {"", PushAccount, OtherAccount},
                audience : {"", ThisService, OtherService},
                ttl : {Unset, "", "few", "1"},
                entries : {Unset, "0"},
                plain : BOOLEAN]

Init == /\ env \in {e \in Environment : FromEnv(e) # {}}
        /\ serving \in FromEnv(env)
        /\ now = 0
        /\ keysUp \in BOOLEAN

(* A revision whose settings raise crashes at import; the previous one     *)
(* goes on serving.                                                        *)
Deploy(e) ==
    /\ serving' \in IF FromEnv(e) = {} THEN {serving} ELSE FromEnv(e)
    /\ env' = IF FromEnv(e) = {} THEN env ELSE e
    /\ UNCHANGED <<now, keysUp>>

Tick == /\ now < MaxTime
        /\ now' = now + 1
        /\ UNCHANGED <<env, serving, keysUp>>

KeysChange == /\ keysUp' = ~keysUp
              /\ UNCHANGED <<env, serving, now>>

Next == (\E e \in Environment : Deploy(e)) \/ Tick \/ KeysChange

Spec == Init /\ [][Next]_vars
-----------------------------------------------------------------------------
(* "A typo cannot ship an open endpoint": a revision that verifies nothing *)
(* serves only because its environment names a mode that says so.          *)
OpenOnlyByName ==
    serving.mode # "oidc" => env.mode \in {"iam", "none"}

(* In oidc mode whoever is let in holds a live token that Google signed    *)
(* for the account and the audience typed into the environment of the      *)
(* revision that serves, whatever was deployed before.                     *)
OnlyOurPushIsAdmitted ==
    serving.mode = "oidc" =>
        \A h \in Header :
            Admits(h) => \E t \in h.credential :
                /\ t.signed /\ t.aud = env.audience
                /\ t.email = env.account /\ t.verified /\ t.exp > now

(* The delivery Pub/Sub really makes, whose refusal costs the message one  *)
(* of its attempts: a revision that verifies refuses it while Google's     *)
(* keys cannot be fetched, or when its environment names another account   *)
(* or audience, and for no other reason, however the header is capitalised *)
(* and the settings were typed.                                            *)
OurPushIsAdmitted ==
    \A h \in Header : \A t \in h.credential :
        /\ h.scheme \in {"Bearer", "bearer"}
        /\ t.signed /\ t.aud = ThisService
        /\ t.email = PushAccount /\ t.verified /\ t.exp > now
        => (Admits(h) <=> \/ serving.mode # "oidc"
                          \/ /\ keysUp
                             /\ env.account = PushAccount /\ env.audience = ThisService)
=============================================================================
