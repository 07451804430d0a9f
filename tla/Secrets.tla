------------------------------- MODULE Secrets -------------------------------
(* The refresh report a host gets: what cpex::host makes of the engine's    *)
(* own, for both bindings.  A report names each declared secret once, as    *)
(* updated, as failed or, by count only, as unchanged.                      *)
EXTENDS Naturals

\* secret_error_kind: a class of errors newer than this build is "other".
ErrorKinds ==
    [Config |-> "config", Reference |-> "reference", NotFound |-> "not_found",
     Malformed |-> "malformed", Backend |-> "backend"]

SecretErrorKind(source) ==
    IF source \in DOMAIN ErrorKinds THEN ErrorKinds[source] ELSE "other"

\* RefreshSummary::from
RefreshSummary(report) ==
    [updated |-> report.updated, unchanged |-> report.unchanged,
     failed |-> {[secret |-> f.secret, provider |-> f.provider,
                  kind |-> SecretErrorKind(f.source)] : f \in report.failed}]

EmptyReport == [updated |-> {}, unchanged |-> 0, failed |-> {}]
=============================================================================
