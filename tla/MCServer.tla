------------------------------ MODULE MCServer ------------------------------
(* Instances of Server for TLC: two requests, and the configurations that   *)
(* make them meet.                                                         *)
EXTENDS Server

CONSTANTS r1, r2, d1, d2, nodata

\* The default parameters, and a configuration that gives them in other ways and
\* does not ask for a logid.
Member(name) == [name |-> name, from |-> "member"]
DefaultParams == <<Member("logid"), Member("usid")>>
OtherParams ==
  <<[name |-> "uuid", from |-> "default"], [name |-> "query", from |-> "path"],
    [name |-> "usid", from |-> "expr"]>>

Config(params, p, editable, hosts) ==
  [params |-> params, path |-> p, editable |-> editable, loaded |-> {"demo"}, hosts |-> hosts]

PassSetups ==
  {Config(DefaultParams, "/config", FALSE, {"stateless"}), Config(DefaultParams, "unset", FALSE, {}),
   Config(OtherParams, "/config", TRUE, {"stateless"})}

\* The setups of single findings: a root path; a loaded scheduler with hosts.
RootSetups == {Config(DefaultParams, "/", FALSE, {})}
HostSetups == {Config(DefaultParams, "unset", FALSE, {"demo"})}

Plain ==
  [json |-> TRUE, params |-> [n \in {"logid", "uuid", "usid", "query"} |-> "string"],
   usid |-> "demo", header |-> FALSE, configAt |-> "nowhere", loads |-> TRUE, flowOk |-> TRUE,
   code |-> 0]
Own(place) == [Plain EXCEPT !.usid = "own", !.configAt = place]

PassKinds ==
  {Plain, [Plain EXCEPT !.code = 7], [Plain EXCEPT !.flowOk = FALSE, !.header = TRUE],
   [Plain EXCEPT !.json = FALSE], [Plain EXCEPT !.params["usid"] = "other", !.params["query"] = "other"],
   [Plain EXCEPT !.params["logid"] = "missing", !.params["query"] = "missing"],
   Own("/config"), Own("nowhere"), [Own("/config") EXCEPT !.loads = FALSE]}
RootKinds == {Own("")}
HostKinds == {Plain}
=============================================================================
