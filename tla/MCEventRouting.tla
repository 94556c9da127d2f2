--------------------------- MODULE MCEventRouting ---------------------------
(***************************************************************************)
(* One camera, a light with a night schedule and a cooldown, and a         *)
(* condition. Motion leads to the light and then to the condition; a       *)
(* second route, for persons in a zone, leads to nothing yet.              *)
(***************************************************************************)
EXTENDS EventRouting

CONSTANTS l1, c1, c2, cam

MCCameras == [s \in {cam} |-> [id |-> "id1", listed |-> {"mac1"}]]
MCPlan    == [t \in {l1} |-> [mode |-> "fixed_window", start |-> 2, end |-> 0,
                              debounce |-> 0, cooldown |-> 1]]
MCSettings == [astro |-> TRUE, sunset |-> 2, sunrise |-> 0]

Motion == [source |-> cam, class |-> "motion", kind |-> "none", objects |-> AnyObject,
           binding |-> "resolved", target |-> NoTarget, enabled |-> TRUE]
Zone   == [Motion EXCEPT !.class = "zone", !.kind = "smartDetectZone", !.objects = {"person"},
                         !.binding = "unresolved", !.enabled = FALSE]
MCRoutes == <<[Motion EXCEPT !.target = l1], [Motion EXCEPT !.target = c1], Zone>>

MCBodies == {
    [source |-> cam, class |-> "audio", binding |-> "resolved", objects |-> {}, target |-> l1],
    [binding |-> "resolved", enabled |-> TRUE, target |-> c1, objects |-> {}],
    [target |-> c2, class |-> "motion", kind |-> "none"],
    [binding |-> "resolved", enabled |-> TRUE, class |-> "line"]}

Id  == [name |-> "id1", exact |-> TRUE]
Mac == [name |-> "mac1", exact |-> FALSE]

ApiEvent(kind, objects, life, end) ==
    [via |-> "api", device |-> Id, kind |-> kind, objects |-> objects, life |-> life, end |-> end]

WebhookEvent(alarm, conditions, secret) ==
    [via |-> "webhook", device |-> Mac, alarm |-> alarm, kind |-> "motion", single |-> "none",
     conditions |-> conditions, objects |-> {}, hint |-> l1, secret |-> secret]

MCPayload == {
    ApiEvent("motion", {}, "add", FALSE),
    ApiEvent("motion", {}, "update", FALSE),
    ApiEvent("motion", {}, "update", TRUE),
    WebhookEvent(<<>>, {}, FALSE),
    WebhookEvent(<<{}, {"zone", "line"}>>, {"person"}, TRUE),
    [via |-> "access"]}

MCSymmetry == Permutations(Run)
=============================================================================
