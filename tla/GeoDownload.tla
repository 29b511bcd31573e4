----------------------------- MODULE GeoDownload -----------------------------
(***************************************************************************)
(* The download of the GeoLite2 databases at the start                     *)
(* (fumox-server geo_download.rs, main.rs): starts may overlap on one      *)
(* directory, a start may be killed at any step, the mirrors may serve     *)
(* anything.                                                               *)
(***************************************************************************)
EXTENDS Naturals, Sequences, FiniteSets

CONSTANTS Starts,        \* processes, each with its own id
          MaxStarts      \* bound: starts over all of them

\* A file's content: its declared type, whether it is whole, and its age.
DatabaseKinds == <<"City", "ASN">>
AbsentFile == [type |-> "absent", whole |-> FALSE, old |-> FALSE]
Served == [type : {"City", "ASN", "page"}, whole : {FALSE}, old : {FALSE}]

VARIABLES installed,  \* kind -> content under its own name
          partial,    \* <<kind, process>> -> content of a temporary file
          starting,   \* process -> its download task and the file it is at
          starts      \* bound: starts so far

downloadVars == <<installed, partial, starting, starts>>

Stopped == [at |-> "down", file |-> 1]
FirstFiles == {AbsentFile, [type |-> "City", whole |-> TRUE, old |-> FALSE], [type |-> "ASN", whole |-> TRUE, old |-> TRUE]}
DownloadInit ==
    /\ installed \in [{"City", "ASN"} -> FirstFiles]
    /\ partial = [t \in {"City", "ASN"} \X Starts |-> AbsentFile]
    /\ starting = [p \in Starts |-> Stopped] /\ starts = 0

\* The metadata block sits at the end of the file: a cut file has none.
\* Mutant: any whole database will do.
verified_mmdb_any_kind(c, kind) == c.type # "absent" /\ c.type # "page" /\ c.whole
verified_mmdb(c, kind) == c.type = kind /\ c.whole
needs_download(kind) == ~verified_mmdb(installed[kind], kind) \/ installed[kind].old

\* Mutant: every start writes the same temporary file.
tmp_path_shared(kind, p) == <<kind, CHOOSE q \in Starts : TRUE>>
tmp_path(kind, p) == <<kind, p>>

Kind(p) == DatabaseKinds[starting[p].file]
Temporary(p) == tmp_path(Kind(p), p)
Step(p, to) == starting' = [starting EXCEPT ![p].at = to]
Finished(p) == starting' = [starting EXCEPT ![p].at = IF @ = "down" THEN @ ELSE IF starting[p].file = 2 THEN "done" ELSE "check",
                                            ![p].file = IF @ = 2 THEN @ ELSE @ + 1]

Begin(p) ==
    /\ starting[p].at = "down" /\ starts < MaxStarts
    /\ starts' = starts + 1
    /\ \E skipped \in BOOLEAN :   \* disabled, or a directory that cannot be written
          starting' = [starting EXCEPT ![p] = [Stopped EXCEPT !.at = IF skipped THEN "done" ELSE "check"]]
    /\ UNCHANGED <<installed, partial>>
\* A killed process leaves its temporary file.
Killed(p) ==
    /\ starting[p].at # "down"
    /\ starting' = [starting EXCEPT ![p] = Stopped]
    /\ UNCHANGED <<installed, partial, starts>>
\* Databases age.
MonthPasses ==
    /\ \E k \in {"City", "ASN"} : installed[k].type # "absent" /\ ~installed[k].old
                                  /\ installed' = [installed EXCEPT ![k].old = TRUE]
    /\ UNCHANGED <<partial, starting, starts>>

ensure_one(p) ==
    /\ starting[p].at = "check"
    /\ IF needs_download(Kind(p)) THEN Step(p, "request") ELSE Finished(p)
    /\ UNCHANGED <<installed, partial, starts>>
\* File::create truncates what an earlier start left.
ResponseArrives(p) ==
    /\ starting[p].at = "request"
    /\ \E c \in Served : partial' = [partial EXCEPT ![Temporary(p)] = c]
    /\ Step(p, "body")
    /\ UNCHANGED <<installed, starts>>
BodyEnds(p) ==
    /\ starting[p].at = "body"
    /\ \E whole \in BOOLEAN :   \* a body that ends without its length may be cut
          partial' = [partial EXCEPT ![Temporary(p)].whole = whole /\ partial[Temporary(p)].type # "absent"]
    /\ Step(p, "verify")
    /\ UNCHANGED <<installed, starts>>
\* A refused request, a broken, overlong or slow body.
DownloadFails(p) ==
    /\ starting[p].at \in {"request", "body"}
    /\ partial' = [partial EXCEPT ![Temporary(p)] = AbsentFile]
    /\ Finished(p)
    /\ UNCHANGED <<installed, starts>>
Verify(p) ==
    /\ starting[p].at = "verify"
    /\ IF verified_mmdb(partial[Temporary(p)], Kind(p)) THEN Step(p, "rename") /\ UNCHANGED partial
       ELSE Finished(p) /\ partial' = [partial EXCEPT ![Temporary(p)] = AbsentFile]
    /\ UNCHANGED <<installed, starts>>
Rename(p) ==
    /\ starting[p].at = "rename"
    /\ \/ installed' = IF partial[Temporary(p)].type = "absent" THEN installed
                       ELSE [installed EXCEPT ![Kind(p)] = partial[Temporary(p)]]
       \/ UNCHANGED installed
    /\ partial' = [partial EXCEPT ![Temporary(p)] = AbsentFile]
    /\ Finished(p)
    /\ UNCHANGED starts

DownloadNext ==
    \/ MonthPasses
    \/ \E p \in Starts : \/ Begin(p) \/ Killed(p) \/ ensure_one(p) \/ ResponseArrives(p) \/ BodyEnds(p)
                         \/ DownloadFails(p) \/ Verify(p) \/ Rename(p)
DownloadSpec == DownloadInit /\ [][DownloadNext]_downloadVars

-----------------------------------------------------------------------------
(* Properties.                                                              *)

\* geo_download.rs: "the resolver always finds either a complete file or
\* nothing": whatever starts overlap or are killed, a database's name only
\* ever receives a whole file of its own kind, and a failed download leaves
\* the one that was there.
InstalledIsVerified ==
    [][\A k \in {"City", "ASN"} : installed'[k].type # installed[k].type \/ installed'[k].whole # installed[k].whole
          => installed'[k].type = k /\ installed'[k].whole]_downloadVars
=============================================================================
