---------------------------- MODULE MCTelemetry ----------------------------
(* A small instance of Telemetry: two data in one frame, one of them also   *)
(* under an alias, a member that is ignored at both ends.                   *)
EXTENDS Telemetry, TLC

CONSTANTS x, y, ax, pdo

MCAlias == (ax :> x)
MCMembers == (pdo :> <<ax, y, x>>)
MCSection == <<ax, x, y>>
MCIgnored == {<<"tm", pdo, 1>>, <<"msg", pdo, 1>>}
MCOptional == {}
MCAlways == {}
MCMaxUpdates == (x :> 1) @@ (y :> 1)
=============================================================================
