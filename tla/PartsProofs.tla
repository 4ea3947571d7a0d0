------------------------------ MODULE PartsProofs ------------------------------
(***************************************************************************)
(* The safety properties of the parts, for any accounts, services, keys,   *)
(* instances, messages and runs: each part by itself, and all of them      *)
(* together (PartsRun).                                                    *)
(***************************************************************************)
EXTENDS Parts, ProvisioningProofs, Sequences, FiniteSetTheorems

-----------------------------------------------------------------------------
(***************************************************************************)
(* The front door of the processor.  What is inductive is where the        *)
(* settings come from: a serving revision was built by from_env, and a     *)
(* revision whose settings raise never gets here.                          *)
(***************************************************************************)
DoorInv == pushEnv \in Door!Environment /\ serving \in Door!FromEnv(pushEnv)

LEMMA DoorInit == Door!Init => DoorInv
  BY DEF Door!Init, DoorInv

LEMMA DoorNext == DoorInv /\ [Door!Next]_doorVars => DoorInv'
<1> SUFFICES ASSUME DoorInv, [Door!Next]_doorVars PROVE DoorInv'
  OBVIOUS
<1>1. ASSUME NEW e \in Door!Environment, Door!Deploy(e)
      PROVE  DoorInv'
  <2>1. CASE Door!FromEnv(e) = {}
    <3>1. serving' = serving /\ pushEnv' = pushEnv
      BY <1>1, <2>1 DEF Door!Deploy
    <3>2. Door!FromEnv(pushEnv)' = Door!FromEnv(pushEnv)
      BY <3>1 DEF Door!FromEnv, Door!Mode, Door!Stripped, Door!Require, Door!PositiveInt
    <3>3. QED
      BY <3>1, <3>2 DEF DoorInv, Door!Environment
  <2>2. CASE Door!FromEnv(e) # {}
    <3>1. serving' \in Door!FromEnv(e) /\ pushEnv' = e
      BY <1>1, <2>2 DEF Door!Deploy
    <3>2. QED
      BY <3>1 DEF DoorInv
  <2>3. QED
    BY <2>1, <2>2
<1>2. CASE Door!Tick \/ Door!KeysChange \/ UNCHANGED doorVars
  BY <1>2 DEF Door!Tick, Door!KeysChange, doorVars, DoorInv
<1>3. QED
  BY <1>1, <1>2 DEF Door!Next

(* What a revision that serves has been given. *)
LEMMA ServingFacts ==
    ASSUME DoorInv
    PROVE  /\ serving.mode \in {"iam", "none", "oidc"} /\ pushEnv.mode = serving.mode
           /\ serving.mode = "oidc" => /\ serving.audience = pushEnv.audience
                                       /\ serving.account = pushEnv.account
<1> USE DEF DoorInv
<1>1. /\ serving.mode \in Door!Mode(pushEnv)
      /\ serving.mode = "oidc" => /\ serving.account \in Door!Require(pushEnv, "account")
                                  /\ serving.audience \in Door!Require(pushEnv, "audience")
  <2> DEFINE Expected(key) == IF Door!Mode(pushEnv) = {"oidc"} THEN Door!Require(pushEnv, key)
                                                               ELSE {Door!Unset}
  <2>1. serving \in [mode : Door!Mode(pushEnv),
                     account : Expected("account"), audience : Expected("audience"),
                     ttl : Door!PositiveInt(pushEnv, "ttl", Door!DefaultTtl),
                     entries : Door!PositiveInt(pushEnv, "entries", Door!DefaultMaxEntries)]
    BY DEF Door!FromEnv
  <2>2. serving.mode = "oidc" => Door!Mode(pushEnv) = {"oidc"}
    BY <2>1 DEF Door!Mode
  <2>3. QED
    BY <2>1, <2>2
<1>2. pushEnv.mode \in {"iam", "none", "oidc", "unset", "", "oicd"}
  BY DEF Door!Environment, Door!Modes, Door!Unset
<1>3. serving.mode \in {"iam", "none", "oidc"} /\ pushEnv.mode = serving.mode
  BY <1>1, <1>2 DEF Door!Mode, Door!Modes, Door!Stripped, Door!Unset
<1>4. serving.mode = "oidc" => /\ serving.audience = pushEnv.audience
                               /\ serving.account = pushEnv.account
  BY <1>1 DEF Door!Require, Door!Stripped
<1>5. QED
  BY <1>3, <1>4

(* No typo opens the endpoint: only an environment that names an open mode *)
(* serves one, after any number of deployments.                            *)
THEOREM OpenByName == Door!Spec => []OpenOnlyByName
<1>1. DoorInv => OpenOnlyByName
  BY ServingFacts DEF OpenOnlyByName, Door!OpenOnlyByName
<1>2. QED
  BY DoorInit, DoorNext, <1>1, PTL DEF Door!Spec, Door!vars, doorVars

(* Whoever is let in while the app verifies holds a live token Google      *)
(* signed for the account and the audience its revision was given.         *)
THEOREM OnlyOurPush == Door!Spec => []OnlyOurPushIsAdmitted
<1>1. ASSUME DoorInv, serving.mode = "oidc", NEW h \in Door!Header, Door!Admits(h)
      PROVE  \E t \in h.credential : /\ t.signed /\ t.aud = pushEnv.audience
                                     /\ t.email = pushEnv.account
                                     /\ t.verified /\ t.exp > now
  BY <1>1, ServingFacts
     DEF Door!Admits, Door!VerifyPushToken, Door!BearerToken, Door!Decode
<1>2. DoorInv => OnlyOurPushIsAdmitted
  BY <1>1 DEF OnlyOurPushIsAdmitted, Door!OnlyOurPushIsAdmitted
<1>3. QED
  BY DoorInit, DoorNext, <1>2, PTL DEF Door!Spec, Door!vars, doorVars

(* Through any deployments, the delivery Pub/Sub makes is refused only     *)
(* while the keys cannot be fetched or another principal is configured,    *)
(* and then it is.                                                         *)
THEOREM OurPush == Door!Spec => []OurPushIsAdmitted
<1>1. ASSUME DoorInv, NEW h \in Door!Header, NEW t \in h.credential,
             h.scheme \in {"Bearer", "bearer"}, t.signed, t.aud = ThisService,
             t.email = PushAccount, t.verified, t.exp > now
      PROVE  Door!Admits(h) <=>
                 \/ serving.mode # "oidc"
                 \/ keysUp /\ pushEnv.account = PushAccount /\ pushEnv.audience = ThisService
  <2>1. h.credential = {t}
    BY <1>1 DEF Door!Header
  <2>2. Door!VerifyPushToken(h, serving.audience, serving.account) <=>
            keysUp /\ serving.account = PushAccount /\ serving.audience = ThisService
    BY <1>1, <2>1 DEF Door!VerifyPushToken, Door!BearerToken, Door!Decode
  <2>3. QED
    BY <1>1, <2>2, ServingFacts DEF Door!Admits
<1>2. DoorInv => OurPushIsAdmitted
  BY <1>1 DEF OurPushIsAdmitted, Door!OurPushIsAdmitted
<1>3. QED
  BY DoorInit, DoorNext, <1>2, PTL DEF Door!Spec, Door!vars, doorVars

-----------------------------------------------------------------------------
(***************************************************************************)
(* The front door of the ingest service.  KeyInForce compares two places:  *)
(* what an instance holds and what the secret's version says.  It holds    *)
(* because versions are only ever added, so the place an instance has      *)
(* resolved keeps meaning the same, and because no instance outlives its   *)
(* revision, whose header it holds.                                        *)
(***************************************************************************)
AnySettings == UNION {Front!FromEnv(e, secret) : e \in Front!Environment, secret \in Front!Secret}

FrontTypes == /\ versions \in Seq(Front!Secret) /\ versions # <<>>
              /\ settings \in [Instance -> SUBSET AnySettings]
              /\ resolved \in [Instance -> Nat]
              /\ ingestEnv \in Front!Environment

HoldsItsVersion ==
    \A i \in Instance : \A s \in settings[i] :
        /\ resolved[i] \in 1 .. Len(versions)
        /\ s.signing_secret = versions[resolved[i]].text
        /\ s.signing_secret # ""
        /\ s.signing_key_header = Front!HeaderName(ingestEnv)

FrontInv == FrontTypes /\ HoldsItsVersion

(* The settings carry the text of the secret, which is not blank, and the  *)
(* header of the environment.                                              *)
LEMMA FromEnvCarriesTheSecret ==
    ASSUME NEW e, NEW secret, NEW s \in Front!FromEnv(e, secret)
    PROVE  /\ s.signing_secret = secret.text /\ secret.text # ""
           /\ s.signing_key_header = Front!HeaderName(e)
  BY DEF Front!FromEnv, Front!Require

LEMMA FromEnvIsAnySettings ==
    ASSUME NEW e \in Front!Environment, NEW secret \in Front!Secret
    PROVE  Front!FromEnv(e, secret) \subseteq AnySettings
  BY DEF AnySettings

LEMMA FrontInit == Front!Init => FrontInv
<1> SUFFICES ASSUME Front!Init PROVE FrontInv
  OBVIOUS
<1>1. PICK secret \in Front!Secret : versions = <<secret>>
  BY DEF Front!Init
<1>2. versions \in Seq(Front!Secret) /\ versions # <<>>
  BY <1>1
<1>3. FrontTypes
  BY <1>2 DEF Front!Init, FrontTypes
<1>4. HoldsItsVersion
  BY DEF Front!Init, HoldsItsVersion
<1>5. QED
  BY <1>3, <1>4 DEF FrontInv

LEMMA FrontNext == FrontInv /\ [Front!Next]_frontVars => FrontInv'
<1> SUFFICES ASSUME FrontInv, [Front!Next]_frontVars PROVE FrontInv'
  OBVIOUS
<1> USE DEF FrontInv, FrontTypes
<1>1. ASSUME NEW secret \in Front!Secret, Front!AddVersion(secret)
      PROVE  FrontInv'
  <2>1. /\ versions' = Append(versions, secret)
        /\ UNCHANGED <<ingestEnv, settings, resolved>>
    BY <1>1 DEF Front!AddVersion
  <2>2. /\ versions' \in Seq(Front!Secret) /\ Len(versions') = Len(versions) + 1
        /\ \A k \in 1 .. Len(versions) : versions'[k] = versions[k]
    BY <2>1
  <2>3. FrontTypes'
    BY <2>1, <2>2
  <2>4. ASSUME NEW i \in Instance, NEW s \in settings'[i]
        PROVE  /\ resolved'[i] \in 1 .. Len(versions')
               /\ s.signing_secret = versions'[resolved'[i]].text
               /\ s.signing_secret # ""
               /\ s.signing_key_header = Front!HeaderName(ingestEnv')
    <3>1. /\ resolved[i] \in 1 .. Len(versions)
          /\ s.signing_secret = versions[resolved[i]].text
          /\ s.signing_secret # ""
          /\ s.signing_key_header = Front!HeaderName(ingestEnv)
      BY <2>1, <2>4 DEF HoldsItsVersion
    <3>2. resolved'[i] = resolved[i] /\ versions'[resolved[i]] = versions[resolved[i]]
      BY <2>1, <2>2, <3>1
    <3>3. resolved[i] \in 1 .. Len(versions')
      <4>1. \A n \in Nat : 1 .. n \subseteq 1 .. n + 1
        OBVIOUS
      <4>2. Len(versions) \in Nat
        OBVIOUS
      <4>3. 1 .. Len(versions') = 1 .. Len(versions) + 1
        BY <2>2
      <4>4. QED
        BY <3>1, <4>1, <4>2, <4>3, Zenon
    <3>4. QED
      BY <2>1, <3>1, <3>2, <3>3
  <2>5. HoldsItsVersion'
    BY <2>4 DEF HoldsItsVersion, Front!HeaderName
  <2>6. QED
    BY <2>3, <2>5
<1>2. ASSUME NEW e \in Front!Environment, Front!Deploy(e)
      PROVE  FrontInv'
  BY <1>2 DEF Front!Deploy, HoldsItsVersion
<1>3. ASSUME NEW i \in Instance, Front!Start(i)
      PROVE  FrontInv'
  <2>1. /\ settings' = [settings EXCEPT ![i] = Front!FromEnv(ingestEnv, Front!Latest)]
        /\ resolved' = [resolved EXCEPT ![i] = Len(versions)]
        /\ UNCHANGED <<versions, ingestEnv>>
    BY <1>3 DEF Front!Start
  <2>2. Len(versions) \in 1 .. Len(versions) /\ Front!Latest = versions[Len(versions)]
        /\ Front!Latest \in Front!Secret
    BY DEF Front!Latest
  <2>3. FrontTypes'
    BY <2>1, <2>2, FromEnvIsAnySettings
  <2>4. ASSUME NEW j \in Instance, NEW s \in settings'[j]
        PROVE  /\ resolved'[j] \in 1 .. Len(versions')
               /\ s.signing_secret = versions'[resolved'[j]].text
               /\ s.signing_secret # ""
               /\ s.signing_key_header = Front!HeaderName(ingestEnv')
    <3>1. CASE j = i
      <4>1. s \in Front!FromEnv(ingestEnv, Front!Latest) /\ resolved'[j] = Len(versions)
        BY <2>1, <2>4, <3>1
      <4>2. s.signing_secret = Front!Latest.text /\ Front!Latest.text # ""
        BY <4>1, FromEnvCarriesTheSecret
      <4>3. versions' = versions /\ ingestEnv' = ingestEnv
        BY <2>1
      <4>4. QED
        BY <2>2, <4>1, <4>2, <4>3, FromEnvCarriesTheSecret
    <3>2. CASE j # i
      <4>1. s \in settings[j] /\ resolved'[j] = resolved[j]
        BY <2>1, <2>4, <3>2
      <4>2. QED
        BY <2>1, <4>1 DEF HoldsItsVersion
    <3>3. QED
      BY <3>1, <3>2
  <2>5. HoldsItsVersion'
    BY <2>4 DEF HoldsItsVersion, Front!HeaderName
  <2>6. QED
    BY <2>3, <2>5
<1>4. ASSUME NEW i \in Instance, Front!Stop(i)
      PROVE  FrontInv'
  <2>1. /\ settings' = [settings EXCEPT ![i] = {}]
        /\ resolved' = [resolved EXCEPT ![i] = 0]
        /\ UNCHANGED <<versions, ingestEnv>>
    BY <1>4 DEF Front!Stop
  <2>2. \A j \in Instance : /\ settings'[j] = IF j = i THEN {} ELSE settings[j]
                            /\ j # i => resolved'[j] = resolved[j]
    BY <2>1
  <2>3. QED
    BY <2>1, <2>2 DEF HoldsItsVersion, Front!HeaderName
<1>5. CASE UNCHANGED frontVars
  BY <1>5 DEF frontVars, HoldsItsVersion, Front!HeaderName
<1>6. QED
  BY <1>1, <1>2, <1>3, <1>4, <1>5 DEF Front!Next

(* Through rotations, deployments and restarts an instance lets in exactly *)
(* the key of the version it started with, under its revision's header.    *)
THEOREM KeyOfTheStart == Front!Spec => []KeyInForce
<1>1. ASSUME FrontInv, NEW i \in Instance, NEW q \in Front!Delivery, settings[i] # {}
      PROVE  Front!Admits(i, q) <=> /\ q.header = Front!HeaderName(ingestEnv)
                                    /\ q.key # "" /\ q.key = versions[resolved[i]].text
  BY <1>1 DEF FrontInv, HoldsItsVersion, Front!Admits, Front!VerifySigningKey, Front!Provided
<1>2. FrontInv => KeyInForce
  BY <1>1 DEF KeyInForce, Front!KeyInForce
<1>3. QED
  BY FrontInit, FrontNext, <1>2, PTL DEF Front!Spec, Front!vars, frontVars
-----------------------------------------------------------------------------
(***************************************************************************)
(* The envelope.  A body that was not garbled is the one Pub/Sub builds    *)
(* for the message, whatever its delivery attempt says (Genuine).          *)
(***************************************************************************)
Published == [event_id : Letter!Kind, source : Letter!Kind, received_at : Letter!Kind,
              data : {"whole", "absent"}]

Genuine == /\ body.json /\ body.message /\ body.attributes
           /\ body.event_id = message.event_id /\ body.source = message.source
           /\ body.received_at = message.received_at
           /\ body.messageId = "string" /\ body.publishTime = "string"
           /\ body.deliveryAttempt \in {"integer", "absent"}
           /\ body.data = message.data

LetterInv == /\ message \in Published
             /\ own => message = Letter!OwnMessage
             /\ garbled \in BOOLEAN
             /\ ~garbled => Genuine

LEMMA WrapIsGenuine == ASSUME body = Letter!Wrap(message) PROVE Genuine
<1>1. Letter!Wrap(message).deliveryAttempt \in {"integer", "absent"}
  BY DEF Letter!Wrap
<1>2. QED
  BY <1>1 DEF Genuine, Letter!Wrap

LEMMA LetterInit == Letter!Init => LetterInv
<1> SUFFICES ASSUME Letter!Init PROVE LetterInv
  OBVIOUS
<1>1. Letter!OwnMessage \in Published
  BY DEF Letter!OwnMessage, Published, Letter!Text, Letter!Kind
<1>2. Letter!ForeignMessage \subseteq Published
  BY DEF Letter!ForeignMessage, Published, Letter!Kind
<1>3. message \in Published /\ (own => message = Letter!OwnMessage)
  BY <1>1, <1>2 DEF Letter!Init
<1>4. garbled = FALSE /\ Genuine
  BY WrapIsGenuine DEF Letter!Init
<1>5. QED
  BY <1>3, <1>4 DEF LetterInv

LEMMA LetterNext == LetterInv /\ [Letter!Next]_letterVars => LetterInv'
<1> SUFFICES ASSUME LetterInv, [Letter!Next]_letterVars PROVE LetterInv'
  OBVIOUS
<1>1. CASE Letter!Redeliver
  <2>1. /\ message' = message /\ own' = own /\ garbled' = FALSE /\ policy' = policy
        /\ body' = Letter!Wrap(message)
    BY <1>1 DEF Letter!Redeliver
  <2>2. Genuine'
    BY <2>1 DEF Genuine, Letter!Wrap
  <2>3. Letter!OwnMessage' = Letter!OwnMessage
    BY DEF Letter!OwnMessage
  <2>4. QED
    BY <2>1, <2>2, <2>3 DEF LetterInv
<1>2. CASE Letter!SetPolicy \/ UNCHANGED letterVars
  <2>1. UNCHANGED <<message, own, body, garbled>>
    BY <1>2 DEF Letter!SetPolicy, letterVars
  <2>2. Genuine' = Genuine
    BY <2>1 DEF Genuine
  <2>3. QED
    BY <2>1, <2>2 DEF LetterInv
<1>3. CASE Letter!Garble
  BY <1>3 DEF Letter!Garble, LetterInv
<1>4. QED
  BY <1>1, <1>2, <1>3 DEF Letter!Next
-----------------------------------------------------------------------------
(* The parser on a genuine body looks at the message alone. *)
Parses(m) == /\ m.event_id = "string" /\ m.source = "string" /\ m.received_at = "string"
             /\ Letter!Decode(m.data) # {}

LEMMA GenuineVerdict == Genuine => (Letter!ParsePushEnvelope(body) # {} <=> Parses(message))
<1> SUFFICES ASSUME Genuine
             PROVE  Letter!ParsePushEnvelope(body) # {} <=> Parses(message)
  OBVIOUS
<1>1. Letter!WellFormed(body) <=> /\ message.event_id = "string" /\ message.source = "string"
                                  /\ message.received_at = "string"
  BY DEF Genuine, Letter!WellFormed, Letter!RequireString, Letter!Attributes
<1>2. Letter!DeliveryAttempt(body) # {}
  BY DEF Genuine, Letter!DeliveryAttempt
<1>3. Letter!Decode(body.data) = Letter!Decode(message.data)
  BY DEF Genuine
<1>4. [event_id : {body.event_id}, data : Letter!Decode(body.data),
       delivery_attempt : Letter!DeliveryAttempt(body)] # {}
         <=> Letter!Decode(body.data) # {}
  <2>1. ASSUME NEW v \in Letter!Decode(body.data), NEW a \in Letter!DeliveryAttempt(body)
        PROVE  [event_id |-> body.event_id, data |-> v, delivery_attempt |-> a]
                 \in [event_id : {body.event_id}, data : Letter!Decode(body.data),
                      delivery_attempt : Letter!DeliveryAttempt(body)]
    OBVIOUS
  <2>2. ASSUME NEW r \in [event_id : {body.event_id}, data : Letter!Decode(body.data),
                          delivery_attempt : Letter!DeliveryAttempt(body)]
        PROVE  r.data \in Letter!Decode(body.data)
    OBVIOUS
  <2>3. QED
    BY <1>2, <2>1, <2>2
<1>5. QED
  BY <1>1, <1>3, <1>4 DEF Letter!ParsePushEnvelope, Parses

(* Pub/Sub's own envelope of a message gets the same verdict at every      *)
(* attempt, with a dead-letter policy or without.                          *)
THEOREM VerdictStands == Letter!Spec => VerdictIsPermanent
<1>1. (Genuine => (Letter!ParsePushEnvelope(body) # {} <=> Parses(message)))'
  BY GenuineVerdict, PTL
<1>2. ASSUME LetterInv, LetterInv', [Letter!Next]_letterVars, ~garbled, ~garbled'
      PROVE  (Letter!ParsePushEnvelope(body) = {}) <=> (Letter!ParsePushEnvelope(body)' = {})
  <2>1. message' = message
    BY <1>2 DEF Letter!Next, Letter!Redeliver, Letter!SetPolicy, Letter!Garble, letterVars
  <2>2. Genuine /\ Genuine'
    BY <1>2 DEF LetterInv
  <2>3. Parses(message)' = Parses(message)
    BY <2>1 DEF Parses, Letter!Decode
  <2>4. QED
    BY <1>1, <2>2, <2>3, GenuineVerdict
<1>3. LetterInv /\ LetterInv' /\ [Letter!Next]_letterVars
        => [ ~garbled /\ ~garbled' =>
                ((Letter!ParsePushEnvelope(body) = {}) <=> (Letter!ParsePushEnvelope(body)' = {})) ]_letterVars
  BY <1>2
<1>4. QED
  BY LetterInit, LetterNext, <1>3, PTL
     DEF Letter!Spec, Letter!vars, letterVars, VerdictIsPermanent, Letter!VerdictIsPermanent

LEMMA OwnMessageParses == Parses(Letter!OwnMessage) <=> SourceName # ""
<1>1. Letter!Decode("whole") # {}
  BY DEF Letter!Decode
<1>2. QED
  BY <1>1 DEF Parses, Letter!OwnMessage, Letter!Text

LEMMA OwnVerdict ==
    ASSUME LetterInv, own, ~garbled
    PROVE  Letter!ParsePushEnvelope(body) # {} <=> SourceName # ""
<1>1. Genuine /\ message = Letter!OwnMessage
  BY DEF LetterInv
<1>2. QED
  BY <1>1, GenuineVerdict, OwnMessageParses

(* With a source name, what the ingest service publishes always parses. *)
THEOREM OwnMessagesAreParsed == ASSUME SourceName # "" PROVE Letter!Spec => []OwnMessagesParse
<1>1. LetterInv => OwnMessagesParse
  BY OwnVerdict DEF OwnMessagesParse, Letter!OwnMessagesParse
<1>2. QED
  BY LetterInit, LetterNext, <1>1, PTL DEF Letter!Spec, Letter!vars, letterVars

(* Without one (WEBHOOK_SOURCE= is accepted) nothing of its own ever does: *)
(* the hypothesis of OwnMessagesAreParsed cannot be dropped.               *)
THEOREM BlankSourceNeverParses ==
    ASSUME SourceName = ""
    PROVE  Letter!Spec => [](own /\ ~garbled => Letter!ParsePushEnvelope(body) = {})
<1>1. LetterInv => (own /\ ~garbled => Letter!ParsePushEnvelope(body) = {})
  BY OwnVerdict
<1>2. QED
  BY LetterInit, LetterNext, <1>1, PTL DEF Letter!Spec, Letter!vars, letterVars

-----------------------------------------------------------------------------
(***************************************************************************)
(* The log.  Once configured, the root has the newest JSON handler and     *)
(* no logger below it has any or keeps a record to itself.                 *)
(***************************************************************************)
Line(by, r) == [at |-> "root", by |-> by, payload |-> Log!Format(r)]

Configured == /\ handlers["root"] = {calls}
              /\ \A l \in Log!Uvicorn : handlers[l] = {} /\ propagate[l]

LogInv == /\ calls \in 0 .. MaxCalls
          /\ handlers["ingest.app"] = {} /\ propagate["ingest.app"]
          /\ calls > 0 => Configured
          /\ \/ record = Log!NoRecord /\ lines = {}
             \/ \E n \in 1 .. MaxCalls : lines = {Line(n, record)}

LEMMA LogInit == Log!Init => LogInv
<1> SUFFICES ASSUME Log!Init PROVE LogInv
  OBVIOUS
<1>1. calls = 0 /\ record = Log!NoRecord /\ lines = {}
  BY DEF Log!Init
<1>2. PICK r \in {{}, {Log!Plain}}, u \in {{}, {Log!Plain}} :
          handlers = [l \in Log!Logger |-> CASE l = "root" -> r
                                             [] l \in {"uvicorn", "uvicorn.access"} -> u
                                             [] OTHER -> {}]
  BY DEF Log!Init
<1>3. handlers["ingest.app"] = {}
  BY <1>2 DEF Log!Logger
<1>4. propagate["ingest.app"]
  <2>1. PICK p \in BOOLEAN :
            propagate = [l \in Log!Logger |-> l \notin {"uvicorn", "uvicorn.access"} \/ p]
    BY DEF Log!Init
  <2>2. "ingest.app" \in Log!Logger /\ "ingest.app" \notin {"uvicorn", "uvicorn.access"}
    BY DEF Log!Logger
  <2>3. QED
    BY <2>1, <2>2, Zenon
<1>5. QED
  BY <1>1, <1>3, <1>4, CallsAssumption DEF LogInv

(* Wherever it is logged, a record passes every logger up to the root. *)
LEMMA RootIsReached ==
    ASSUME Configured, propagate["ingest.app"], NEW name \in Log!Logger
    PROVE  "root" \in Log!Reached(name) /\ Log!Reached(name) \subseteq Log!Logger
  BY DEF Configured, Log!Reached, Log!Path, Log!Parent, Log!Uvicorn, Log!Logger

LEMMA OneLine ==
    ASSUME LogInv, NEW r \in Log!Record, Log!Log(r)
    PROVE  calls \in 1 .. MaxCalls /\ lines' = {Line(calls, r)}
<1>1. calls \in 1 .. MaxCalls /\ Configured /\ handlers["ingest.app"] = {} /\ propagate["ingest.app"]
  BY CallsAssumption DEF LogInv, Log!Log
<1> DEFINE Writers == {p \in Log!Logger \X Log!Handler :
                          p[1] \in Log!Reached(r.name) /\ p[2] \in handlers[p[1]]}
<1>2. r.name \in Log!Logger
  BY DEF Log!Record
<1>3. "root" \in Log!Reached(r.name)
  BY <1>1, <1>2, RootIsReached
<1>4. \A l \in Log!Logger : l # "root" => handlers[l] = {}
  BY <1>1 DEF Configured, Log!Logger
<1>5. <<"root", calls>> \in Writers
  BY <1>1, <1>3, CallsAssumption DEF Configured, Log!Logger, Log!Handler
<1>6. ASSUME NEW p \in Writers
      PROVE  p = <<"root", calls>>
  BY <1>1, <1>4 DEF Configured
<1>7. lines' = {[at |-> w[1], by |-> w[2], payload |-> Log!Format(r)] : w \in Writers}
  BY DEF Log!Log
<1> HIDE DEF Writers
<1>8. Writers = {<<"root", calls>>}
  BY <1>5, <1>6
<1>9. QED
  BY <1>1, <1>7, <1>8 DEF Line

LEMMA LogNext == LogInv /\ [Log!Next]_logVars => LogInv'
<1> SUFFICES ASSUME LogInv, [Log!Next]_logVars PROVE LogInv'
  OBVIOUS
<1>1. CASE Log!ConfigureLogging
  <2>1. /\ calls < MaxCalls /\ calls' = calls + 1 /\ UNCHANGED <<record, lines>>
        /\ handlers' = [l \in Log!Logger |-> Log!Installed(l)]
        /\ propagate' = [l \in Log!Logger |-> l \in Log!Uvicorn \/ propagate[l]]
    BY <1>1 DEF Log!ConfigureLogging
  <2>2. handlers'["root"] = {calls'} /\ \A l \in Log!Uvicorn : handlers'[l] = {} /\ propagate'[l]
    BY <2>1 DEF Log!Installed, Log!Logger, Log!Uvicorn
  <2>3. handlers'["ingest.app"] = {}
    BY <2>1 DEF LogInv, Log!Installed, Log!Logger, Log!Uvicorn
  <2>4. propagate'["ingest.app"]
    BY <2>1, Zenon DEF LogInv, Log!Logger
  <2>5. calls' \in 0 .. MaxCalls
    BY <2>1, CallsAssumption DEF LogInv
  <2>6. \/ record' = Log!NoRecord /\ lines' = {}
        \/ \E n \in 1 .. MaxCalls : lines' = {Line(n, record')}
    BY <2>1 DEF LogInv
  <2>7. QED
    BY <2>2, <2>3, <2>4, <2>5, <2>6 DEF LogInv, Configured, Line
<1>2. ASSUME NEW r \in Log!Record, Log!Log(r)
      PROVE  LogInv'
  <2>1. record' = r /\ UNCHANGED <<handlers, propagate, calls>>
    BY <1>2 DEF Log!Log
  <2>2. \E n \in 1 .. MaxCalls : lines' = {Line(n, record')}
    BY <1>2, <2>1, OneLine
  <2>3. QED
    BY <2>1, <2>2 DEF LogInv, Configured, Line
<1>3. CASE UNCHANGED logVars
  BY <1>3 DEF LogInv, Configured, Line, logVars
<1>4. QED
  BY <1>1, <1>2, <1>3 DEF Log!Next

(* The fields of the object that is written. *)
LEMMA FormatFacts ==
    ASSUME NEW r
    PROVE  /\ \A k \in Log!Owned : k \in DOMAIN Log!Format(r) => Log!Format(r)[k] = "record"
           /\ "event_id" \in DOMAIN Log!Format(r) <=> "event_id" \in r.extra
           /\ "_private" \notin DOMAIN Log!Format(r)
  BY DEF Log!Format, Log!Extras, Log!Owned, Log!Private

(* However often the services configure, and whatever handlers were there. *)
THEOREM OneLineForARecord == Log!Spec => []OneJsonLineEach
<1>1. ASSUME LogInv, record # Log!NoRecord
      PROVE  Cardinality(lines) = 1 /\ \A n \in lines : n.by # Log!Plain
  <2>1. PICK n \in 1 .. MaxCalls : lines = {Line(n, record)}
    BY <1>1 DEF LogInv
  <2>2. Cardinality(lines) = 1
    BY <2>1, FS_Singleton
  <2>3. \A m \in lines : m.by = n
    BY <2>1 DEF Line
  <2>4. QED
    BY <2>2, <2>3 DEF Log!Plain
<1>2. Cardinality(lines) = Log!Cardinality(lines)
  BY DEF Cardinality, Log!Cardinality
<1>3. LogInv => OneJsonLineEach
  BY <1>1, <1>2 DEF OneJsonLineEach, Log!OneJsonLineEach
<1>4. QED
  BY LogInit, LogNext, <1>3, PTL DEF Log!Spec, Log!vars, logVars

(* No extra= field replaces one of the formatter's own. *)
THEOREM SeverityIsTheRecords == Log!Spec => []OwnFieldsStand
<1>1. LogInv => \A n \in lines : n.payload = Log!Format(record)
  BY DEF LogInv, Line
<1>2. LogInv => OwnFieldsStand
  BY <1>1, FormatFacts DEF OwnFieldsStand, Log!OwnFieldsStand, Log!Owned
<1>3. QED
  BY LogInit, LogNext, <1>2, PTL DEF Log!Spec, Log!vars, logVars

(* The event_id is written whenever it was given, a private field never. *)
THEOREM EventIdIsWritten == Log!Spec => []EventIdSurvives
<1>1. LogInv => \A n \in lines : n.payload = Log!Format(record)
  BY DEF LogInv, Line
<1>2. LogInv => EventIdSurvives
  BY <1>1, FormatFacts DEF EventIdSurvives, Log!EventIdSurvives
<1>3. QED
  BY LogInit, LogNext, <1>2, PTL DEF Log!Spec, Log!vars, logVars

-----------------------------------------------------------------------------
(* The drain script: a run acknowledges only after it has printed its batch. *)
Stage == [phase : {"new", "subscribed", "pulled", "printed", "done"},
          batch : SUBSET Printable]

DrainTypes == run \in [Run -> Stage] /\ queue \subseteq Printable

BatchIsPrinted == \A r \in Run : run[r].phase = "printed" => run[r].batch \subseteq printed

DrainInv == DrainTypes /\ BatchIsPrinted

LEMMA DrainInit == Drain!Init => DrainInv
<1> SUFFICES ASSUME Drain!Init PROVE DrainInv
  OBVIOUS
<1>1. run = [r \in Run |-> [phase |-> "new", batch |-> {}]] /\ queue = {}
  BY DEF Drain!Init, Drain!Begun
<1>2. QED
  BY <1>1 DEF DrainInv, DrainTypes, BatchIsPrinted, Stage

(* A run that moves, while what was printed stays printed. *)
LEMMA RunMoves ==
    ASSUME DrainInv, NEW r \in Run, NEW new \in Stage,
           run' = [run EXCEPT ![r] = new], queue' \subseteq Printable, printed \subseteq printed',
           new.phase = "printed" => new.batch \subseteq printed'
    PROVE  DrainInv'
<1>1. DrainTypes'
  BY DEF DrainInv, DrainTypes
<1>2. ASSUME NEW s \in Run, run'[s].phase = "printed"
      PROVE  run'[s].batch \subseteq printed'
  BY <1>2 DEF DrainInv, DrainTypes, BatchIsPrinted
<1>3. QED
  BY <1>1, <1>2 DEF DrainInv, BatchIsPrinted

LEMMA DrainNext == DrainInv /\ [Drain!Next]_drainVars
                     => DrainInv' /\ queue \ queue' \subseteq printed
<1> SUFFICES ASSUME DrainInv, [Drain!Next]_drainVars
             PROVE  DrainInv' /\ queue \ queue' \subseteq printed
  OBVIOUS
<1> USE DEF Drain!Begun
<1>1. ASSUME NEW m \in Printable, Drain!Publish(m) \/ Drain!LeaseExpires(m)
      PROVE  DrainInv' /\ queue \ queue' \subseteq printed
  BY <1>1 DEF Drain!Publish, Drain!LeaseExpires, DrainInv, DrainTypes, BatchIsPrinted
<1>2. ASSUME NEW r \in Run, Drain!Subscribe(r) \/ Drain!Stop(r)
      PROVE  DrainInv' /\ queue \ queue' \subseteq printed
  <2>1. PICK phase \in {"subscribed", "done"} :
            run' = [run EXCEPT ![r] = [phase |-> phase, batch |-> {}]]
    BY <1>2 DEF Drain!Subscribe, Drain!Stop
  <2>2. UNCHANGED <<queue, printed>>
    BY <1>2 DEF Drain!Subscribe, Drain!Stop
  <2>3. QED
    BY <2>1, <2>2, RunMoves DEF DrainInv, DrainTypes, Stage
<1>3. ASSUME NEW r \in Run, Drain!Pull(r)
      PROVE  DrainInv' /\ queue \ queue' \subseteq printed
  <2>1. PICK batch \in SUBSET (queue \ leased) :
            run' = [run EXCEPT ![r] = [phase |-> IF batch = {} THEN "done" ELSE "pulled",
                                       batch |-> batch]]
    BY <1>3 DEF Drain!Pull
  <2>2. UNCHANGED <<queue, printed>> /\ batch \in SUBSET Printable
    BY <1>3 DEF Drain!Pull, DrainInv, DrainTypes
  <2>3. QED
    BY <2>1, <2>2, RunMoves DEF DrainInv, DrainTypes, Stage
<1>4. ASSUME NEW r \in Run, Drain!PrintAll(r)
      PROVE  DrainInv' /\ queue \ queue' \subseteq printed
  <2>1. run' = [run EXCEPT ![r] = [phase |-> "printed", batch |-> run[r].batch]]
    <3>1. run \in [Run -> Stage] /\ run[r] \in Stage
      BY DEF DrainInv, DrainTypes
    <3>2. [run[r] EXCEPT !.phase = "printed"] = [phase |-> "printed", batch |-> run[r].batch]
      BY <3>1 DEF Stage
    <3>3. run' = [run EXCEPT ![r] = [run[r] EXCEPT !.phase = "printed"]]
      BY <1>4, <3>1 DEF Drain!PrintAll
    <3>4. QED
      BY <3>2, <3>3
  <2>2. queue' = queue /\ printed' = printed \cup run[r].batch
    BY <1>4 DEF Drain!PrintAll
  <2>3. run[r].batch \in SUBSET Printable
    BY DEF DrainInv, DrainTypes, Stage
  <2>4. QED
    BY <2>1, <2>2, <2>3, RunMoves DEF DrainInv, DrainTypes, Stage
<1>5. ASSUME NEW r \in Run, Drain!Acknowledge(r)
      PROVE  DrainInv' /\ queue \ queue' \subseteq printed
  <2>1. run' = [run EXCEPT ![r] = [phase |-> "done", batch |-> {}]] /\ printed' = printed
    BY <1>5 DEF Drain!Acknowledge
  <2>2. queue' \subseteq queue /\ queue \ queue' \subseteq run[r].batch
    BY <1>5 DEF Drain!Acknowledge
  <2>3. run[r].batch \subseteq printed
    BY <1>5 DEF Drain!Acknowledge, Drain!Printed, DrainInv, BatchIsPrinted
  <2>4. QED
    BY <2>1, <2>2, <2>3, RunMoves DEF DrainInv, DrainTypes, Stage
<1>6. CASE UNCHANGED drainVars
  BY <1>6 DEF drainVars, DrainInv, DrainTypes, BatchIsPrinted
<1>7. QED
  BY <1>1, <1>2, <1>3, <1>4, <1>5, <1>6 DEF Drain!Next

(* Whichever runs stop or come late, what leaves the queue was printed. *)
THEOREM PrintedBeforeItGoes == Drain!Spec => NothingIsDroppedUnseen
<1>1. DrainInv /\ [Drain!Next]_drainVars => [queue \ queue' \subseteq printed]_drainVars
  BY DrainNext
<1>2. DrainInv /\ [Drain!Next]_drainVars => DrainInv'
  BY DrainNext
<1>3. QED
  BY DrainInit, <1>1, <1>2, PTL
     DEF Drain!Spec, Drain!vars, drainVars, NothingIsDroppedUnseen, Drain!NothingIsDroppedUnseen
-----------------------------------------------------------------------------
(* In the composition that the run checks each part behaves as its own     *)
(* module says: what is proved of a part holds of it there.                *)
LEMMA PartsRun ==
    PartsSpec => /\ Door!Spec /\ Front!Spec /\ Letter!Spec /\ Log!Spec /\ Drain!Spec
                 /\ Init /\ [][Next]_vars
<1>1. PartsInit => /\ Door!Init /\ Front!Init /\ Letter!Init /\ Log!Init /\ Drain!Init
                   /\ Init
  BY DEF PartsInit
<1>2. [PartsNext]_partsVars => [Door!Next]_doorVars
  BY DEF PartsNext, partsVars
<1>3. [PartsNext]_partsVars => [Front!Next]_frontVars
  BY DEF PartsNext, partsVars
<1>4. [PartsNext]_partsVars => [Letter!Next]_letterVars
  BY DEF PartsNext, partsVars
<1>5. [PartsNext]_partsVars => [Log!Next]_logVars
  BY DEF PartsNext, partsVars
<1>6. [PartsNext]_partsVars => [Drain!Next]_drainVars
  BY DEF PartsNext, partsVars
<1>7. [PartsNext]_partsVars => [Next]_vars
  BY DEF PartsNext, partsVars, buildVars
<1>8. QED
  BY <1>1, <1>2, <1>3, <1>4, <1>5, <1>6, <1>7, PTL
     DEF PartsSpec, Door!Spec, Front!Spec, Letter!Spec, Log!Spec, Drain!Spec,
         Door!vars, Front!vars, Letter!vars, Log!vars, Drain!vars,
         doorVars, frontVars, letterVars, logVars, drainVars

(* Every safety property of the parts, of the specification the run checks. *)
THEOREM PartsAreSafe ==
    ASSUME SourceName # ""
    PROVE  PartsSpec => /\ [](/\ OnlyPoisonIsDeadLettered
                              /\ OpenOnlyByName /\ OnlyOurPushIsAdmitted /\ OurPushIsAdmitted
                              /\ KeyInForce /\ OwnMessagesParse
                              /\ OneJsonLineEach /\ OwnFieldsStand /\ EventIdSurvives)
                        /\ VerdictIsPermanent /\ NothingIsDroppedUnseen
<1>1. IInv => OnlyPoisonIsDeadLettered
  BY DEF IInv
<1>2. Init /\ [][Next]_vars => []OnlyPoisonIsDeadLettered
  BY InitEstablishesIInv, NextPreservesIInv, <1>1, PTL
<1>3. QED
  BY <1>2, PartsRun, OpenByName, OnlyOurPush, OurPush, KeyOfTheStart,
     VerdictStands, OwnMessagesAreParsed, OneLineForARecord, SeverityIsTheRecords, EventIdIsWritten, PrintedBeforeItGoes, PTL
=============================================================================
