--------------------------- MODULE IngressEvents ---------------------------
(***************************************************************************)
(* The pure part of the ingress pipeline: how a Protect websocket message, *)
(* a camera webhook or an Access entry becomes a normalized event, which   *)
(* camera it is attributed to, what its lifecycle allows, and which event  *)
(* routes match it.                                                        *)
(*                                                                         *)
(* Strings are kept as far as the code compares them. An event type is one *)
(* of Kind, with the words the webhook normalization looks for in it. A    *)
(* device identifier is a name and whether it is written exactly as the    *)
(* camera's record has it: the exact comparison tells these apart, the     *)
(* comparison of letters and digits only does not.                         *)
(***************************************************************************)
EXTENDS FiniteSets, Sequences

CONSTANTS
    NoSource,   \* resolvedSource: null
    NoTarget,   \* a route or a webhook without target
    NoDevice,   \* a payload without device identifier
    AnyObject   \* a route without object types (null)

\* Event types that arrive, and the words in them
Words == [smartDetectZone   |-> {"zone"},
          smartDetectLine   |-> {"line"},
          motion            |-> {"motion"},
          smartAudioDetect  |-> {"audio"},
          smartDetectLoiter |-> {},
          motionZone        |-> {"motion", "zone"},
          person            |-> {},
          none              |-> {}]
Kind  == DOMAIN Words
Class == {"zone", "line", "motion", "audio", "unknown"}

-----------------------------------------------------------------------------
\* mapEventClass of the Protect API: only the exact type
ApiClass(kind) ==
    CASE kind = "smartDetectZone"  -> "zone"
      [] kind = "smartDetectLine"  -> "line"
      [] kind = "motion"           -> "motion"
      [] kind = "smartAudioDetect" -> "audio"
      [] OTHER                     -> "unknown"

\* mapEventClass of webhooks: the first of the words that the type contains
WebhookClass(kind) ==
    CASE "zone"   \in Words[kind] -> "zone"
      [] "line"   \in Words[kind] -> "line"
      [] "motion" \in Words[kind] -> "motion"
      [] "audio"  \in Words[kind] -> "audio"
      [] OTHER                    -> "unknown"

\* inferAlarmManagerEventType: the first alarm source that lists zones or lines
AlarmKind(alarm) ==
    LET hits == SelectSeq(alarm, LAMBDA s : s # {})
    IN  IF hits = <<>> THEN "none"
        ELSE IF "zone" \in Head(hits) THEN "smartDetectZone" ELSE "smartDetectLine"

\* extractEventType: the alarm, the payload's own type, or its object type
WebhookKind(p) ==
    IF AlarmKind(p.alarm) # "none" THEN AlarmKind(p.alarm)
    ELSE IF p.kind # "none" THEN p.kind ELSE p.single

\* extractObjectTypes: alarm conditions, a list, or one object type
WebhookObjects(p) ==
    IF p.conditions # {} THEN p.conditions
    ELSE IF p.objects # {} THEN p.objects
    ELSE {p.single} \ {"none"}

-----------------------------------------------------------------------------
\* resolveSourceByCameraId, among the cameras cams of the synchronized table
ByCameraId(d, cams) ==
    {s \in DOMAIN cams : d # NoDevice /\ d.exact /\ d.name = cams[s].id}

\* rawJsonContainsDeviceIdentifier: the record lists the identifier under an
\* address, device or serial key
ByRecord(d, cams) ==
    {s \in DOMAIN cams : d # NoDevice /\ d.name \in cams[s].listed}

TheOnly(S) == IF Cardinality(S) = 1 THEN CHOOSE s \in S : TRUE ELSE NoSource

\* resolveSourceByDeviceIdentifier: the camera id decides, else the only record
Resolve(d, cams) ==
    IF ByCameraId(d, cams) # {} THEN TheOnly(ByCameraId(d, cams))
    ELSE TheOnly(ByRecord(d, cams))

-----------------------------------------------------------------------------
\* normalizeProtectApiEvent and handleMessage: a missing type is "unknown"
NormalizeApi(p, cams) ==
    [via     |-> "api",
     source  |-> TheOnly(ByCameraId(p.device, cams)),
     class   |-> ApiClass(p.kind),
     kind    |-> p.kind,
     objects |-> p.objects,
     life    |-> p.life,
     end     |-> p.end,
     hint    |-> NoTarget,
     valid   |-> FALSE]

\* authenticateWebhookSecret, where the webhook's target needs no secret or has one
SecretOk(p, guarded) == p.hint \notin guarded \/ p.secret

\* normalizeWebhookEvent; a webhook carries no lifecycle
NormalizeWebhook(p, source, valid) ==
    [via     |-> "webhook",
     source  |-> source,
     class   |-> WebhookClass(WebhookKind(p)),
     kind    |-> WebhookKind(p),
     objects |-> WebhookObjects(p),
     life    |-> "none",
     end     |-> FALSE,
     hint    |-> p.hint,
     valid   |-> valid]

\* handleGroupWebhook up to the publication
HandleWebhook(p, cams, guarded) ==
    NormalizeWebhook(p, Resolve(p.device, cams), p.hint # NoTarget /\ SecretOk(p, guarded))

\* normalizeAccessLogRecord, as far as routes look at it: never a camera
NormalizeAccess ==
    [via |-> "access", source |-> NoSource, class |-> "unknown", kind |-> "none",
     objects |-> {}, life |-> "none", end |-> FALSE, hint |-> NoTarget, valid |-> FALSE]

Normalize(p, cams, guarded) ==
    CASE p.via = "api"     -> NormalizeApi(p, cams)
      [] p.via = "webhook" -> HandleWebhook(p, cams, guarded)
      [] p.via = "access"  -> NormalizeAccess

-----------------------------------------------------------------------------
\* Faulty variant: every update of an event triggers it again.
IntentOfUpdates(e) ==
    CASE e.life \in {"add", "update"} -> "trigger"
      [] e.life = "end"               -> "restore"
      [] e.life = "none" /\ e.via = "webhook" -> "trigger"
      [] OTHER                        -> "neither"

\* classifyLifecycle: what the lifecycle gate lets through
Intent(e) ==
    CASE e.life = "add"                       -> "trigger"
      [] e.life = "update" /\ e.end           -> "restore"
      [] e.life = "end"                       -> "restore"
      [] e.life = "none" /\ e.via = "webhook" -> "trigger"
      [] OTHER                                -> "neither"

\* hasObjectTypeMatch; a route without object types takes any
ObjectsMatch(r, e) ==
    IF r.objects = AnyObject THEN TRUE ELSE r.objects \cap e.objects # {}

\* evaluateRoute up to the match
Matches(r, e) ==
    /\ e.source # NoSource
    /\ r.source = e.source
    /\ r.class = e.class
    /\ r.kind \in {"none", e.kind}
    /\ ObjectsMatch(r, e)

\* getNonExecutableReason of the planner: the first reason that applies
Rejection(r, e) ==
    CASE e.via = "access"                  -> "access_execution_not_supported"
      [] e.via = "webhook" /\ ~e.valid     -> "invalid_webhook_secret"
      [] r.binding # "resolved"            -> "route_unresolved"
      [] ~r.enabled                        -> "route_disabled"
      [] r.target = NoTarget               -> "missing_target_id"
      [] OTHER                             -> "none"

-----------------------------------------------------------------------------
\* VALID_EVENT_CLASSES and UPSTREAM_EVENT_TYPES_BY_CLASS of the route API
UpstreamType == [motion |-> "motion",          zone |-> "smartDetectZone",
                 line   |-> "smartDetectLine", audio |-> "smartAudioDetect",
                 loiter |-> "smartDetectLoiter"]

\* OBJECT_TYPES_BY_CLASS, by one member of each list
AllowedObjects == [motion |-> {},         zone |-> {"person"}, line |-> {"person"},
                   audio  |-> {"siren"}, loiter |-> {"person"}]
=============================================================================
