----------------------------- MODULE MCSettings -----------------------------
(* Instances of Settings: one tab may change any field of the registry, the *)
(* other posts its form as it was rendered.                                 *)
EXTENDS Settings

CONSTANTS t1, t2

BootBreaking == {"meow.test_url"}
EveryField   == t1 :> Keys \ BootBreaking @@ t2 :> {}
EndpointList == t1 :> BootBreaking @@ t2 :> {}

(* A padded end of the backoff slips past the comparison of the two ends    *)
(* (README, section 6); every other number may come padded.                 *)
PaddedFields == {k \in Keys : Fields[k] = "int"} \ BackoffEnds

Omitted == {"ingest.drop_gate", "meow.backoff_max_secs", "admin.token"}

(* No file; a rate spelled in every way; a file under overrides; an empty   *)
(* ladder and numbers outside the editor's ranges.                          *)
Started == {<<Absent, NoKeys>>,
  <<Whole("server.rate_limit" :> Written(9, "none") @@ "admin.rate_limit" :> Written(2, "hour")
     @@ "admin.login_rate_limit" :> Written(2, "second") @@ "ingest.drop_gate" :> Flag(TRUE)
     @@ "meow.test_url" :> List(<< <<"u1", "u2">> >>)),
    "ingest.drop_gate" :> Flag(FALSE) @@ "admin.token" :> Str("t2")>>,
  <<Whole("probe.recheck_delays_secs" :> List(<< >>) @@ "fetch.max_retries" :> Num(20)), NoKeys>>}
OneFile == {<<Whole("admin.token" :> Str("t0")), NoKeys>>}
=============================================================================
