-------------------------------- MODULE Fetcher --------------------------------
(***************************************************************************)
(* A source's download (fumox-server fetcher.rs), from the address gate of *)
(* the source form to the last retry.  Redirects are followed by hand and  *)
(* every hop resolves, vets and pins its own address; names may answer     *)
(* differently at every lookup.  The fetcher keeps the settings it started *)
(* with, the form reads the live ones.                                     *)
(***************************************************************************)
EXTENDS HostGate

CONSTANTS FetchUrls,       \* [scheme, host, port, long]: the URLs sources and redirects name
          Answers,         \* host -> the answers its lookups may give
          ConfiguredRetries, \* values of [fetch].max_retries
          RetryCeiling,    \* MAX_RETRIES
          MaxRedirects     \* MAX_REDIRECTS

ASSUME FetchAssumption == /\ RetryCeiling \in Nat /\ MaxRedirects \in Nat /\ ConfiguredRetries \subseteq Nat
                          /\ \A url \in FetchUrls : Answers[url.host] \subseteq Seq(Address)

VARIABLES liveAllow,   \* [admin].allow_private_urls as the panel reads it
          fetchAllow,  \* the same, frozen in the fetcher
          fetch,       \* the download
          seen         \* history: origins given headers, addresses dialled, requests, oversize bodies

fetchVars == <<liveAllow, fetchAllow, fetch, seen>>

NotFetching == [at |-> "none"]
Unseen == [given |-> {}, dialled |-> {}, requests |-> 0, oversize |-> 0]
FetchInit == liveAllow \in BOOLEAN /\ fetchAllow = liveAllow /\ fetch = NotFetching /\ seen = Unseen

\* Mutant: the scheme and the port do not count.
origin_of_host(url) == url.host
origin_of(url) == <<url.scheme, url.host, url.port>>

-----------------------------------------------------------------------------
(* The form.                                                                *)

\* Mutant: the length is left to the form's own cap.
validate_url_any_length(url) == url.scheme \in {"http", "https"}
validate_url(url) == ~url.long /\ url.scheme \in {"http", "https"}
vet_url(url, answer, allow, family) ==
    validate_url(url) /\ (allow \/ vet_host(answer, FALSE, family) # NoAddress)

\* A source is saved under the live switch and fetched later.
SourceSaved ==
    /\ fetch = NotFetching
    /\ \E url \in FetchUrls, family \in Families, retries \in ConfiguredRetries, headers \in BOOLEAN :
       \E answer \in Answers[url.host] :
          /\ vet_url(url, answer, liveAllow, family)
          /\ fetch' = [at |-> "hop", url |-> url, current |-> url, family |-> family, retries |-> retries,
                       headers |-> headers, hop |-> 0, attempt |-> 0, pinned |-> NoAddress,
                       saved |-> answer, answered |-> answer, failure |-> "none", agreed |-> liveAllow = fetchAllow]
    /\ UNCHANGED <<liveAllow, fetchAllow, seen>>

\* A saved settings file reaches the panel at once and the fetcher at the next start.
SwitchSaved == fetch = NotFetching /\ liveAllow' = ~liveAllow /\ UNCHANGED <<fetchAllow, fetch, seen>>
Restarted == fetch = NotFetching /\ fetchAllow # liveAllow /\ fetchAllow' = liveAllow /\ UNCHANGED <<liveAllow, fetch, seen>>

-----------------------------------------------------------------------------
(* The download.                                                            *)

\* Failures are "network", "permanent", "server", "client", "refused" (403),
\* "too large": an address refusal is a client error, a body over the cap is
\* classed with the server errors and still not tried again.
\* Mutant: it is tried again with them.
is_recoverable_class(failure) == failure \in {"network", "server", "too large"}
is_recoverable(failure) == failure \in {"network", "server"}

\* Mutant: the configured number, whatever it is.
RetriesApplied_unbounded(configured) == configured
RetriesApplied(configured) == IF configured < RetryCeiling THEN configured ELSE RetryCeiling

Again(f, failure) ==
    IF f.attempt < RetriesApplied(f.retries) /\ is_recoverable(failure)
    THEN [f EXCEPT !.at = "hop", !.current = f.url, !.hop = 0, !.attempt = @ + 1]
    ELSE [f EXCEPT !.at = "done", !.failure = failure]
Fails(f, failure) ==
    /\ fetch' = Again(f, failure)
    /\ UNCHANGED <<liveAllow, fetchAllow>>

\* One hop as far as the connection: the URL's form, then its address.
fetch_once ==
    /\ fetch.at = "hop"
    /\ \E answer \in Answers[fetch.current.host] :
          LET f == [fetch EXCEPT !.answered = answer]
              ip == vet_host(answer, fetchAllow, fetch.family)
          IN  IF fetch.hop > MaxRedirects \/ fetch.current.long THEN Fails(f, "client")
              ELSE IF fetch.current.scheme \notin {"http", "https"} THEN Fails(f, "permanent")
              ELSE IF ip = NoAddress THEN Fails(f, "refused")
              ELSE fetch' = [f EXCEPT !.at = "pinned", !.pinned = ip] /\ UNCHANGED <<liveAllow, fetchAllow>>
    /\ UNCHANGED seen

Requested(oversize) ==
    seen' = [seen EXCEPT !.dialled = @ \cup {[addr |-> fetch.pinned, family |-> fetch.family, allow |-> fetchAllow]},
                         !.requests = @ + 1,
                         !.oversize = IF oversize THEN @ + 1 ELSE @,
                         !.given = IF fetch.headers /\ origin_of(fetch.current) = origin_of(fetch.url)
                                   THEN @ \cup {<<fetch.current.scheme, fetch.current.host, fetch.current.port>>} ELSE @]

\* The request goes to the pinned address; the headers only to the origin
\* the source names.
Redirected ==
    /\ fetch.at = "pinned"
    /\ Requested(FALSE)
    /\ \E to \in FetchUrls : fetch' = [fetch EXCEPT !.at = "hop", !.current = to, !.hop = @ + 1]
    /\ UNCHANGED <<liveAllow, fetchAllow>>
RequestFailed ==
    /\ fetch.at = "pinned"
    /\ \E failure \in {"network", "server", "client", "too large"} :
          Requested(failure = "too large") /\ Fails(fetch, failure)
Downloaded ==
    /\ fetch.at = "pinned"
    /\ Requested(FALSE)
    /\ fetch' = [fetch EXCEPT !.at = "done", !.failure = "none"]
    /\ UNCHANGED <<liveAllow, fetchAllow>>

FetchNext == SourceSaved \/ SwitchSaved \/ Restarted \/ fetch_once \/ Redirected \/ RequestFailed \/ Downloaded
FetchSpec == FetchInit /\ [][FetchNext]_fetchVars

-----------------------------------------------------------------------------
(* Properties.                                                              *)

FetchTypeOK ==
    /\ fetch.at \in {"none", "hop", "pinned", "done"}
    /\ fetch.at # "none" => fetch.hop \in 0..MaxRedirects + 1 /\ fetch.attempt \in 0..RetryCeiling

\* fetcher.rs vet_host: whatever the lookups answer from hop to hop and from
\* try to try, the fetcher connects only to addresses that lead to public
\* space and that are of the family asked for, unless private ones are allowed.
DialsAreVetted ==
    \A d \in seen.dialled :
        /\ family_matches(d.addr, d.family)
        /\ d.allow \/ LeadsOut(d.addr)

\* fetcher.rs fetch_once: the source's headers reach the origin the operator
\* configured and no other, also when a redirect changes only scheme or port.
HeadersStayHome == fetch.at # "none" =>
    seen.given \subseteq {<<fetch.url.scheme, fetch.url.host, fetch.url.port>>}

\* fetcher.rs fetch: however the configuration and the servers behave, the
\* requests of one download are bounded, and a body over the cap is
\* downloaded once.
DownloadIsBounded ==
    /\ seen.requests <= (RetryCeiling + 1) * (MaxRedirects + 1)
    /\ seen.oversize <= 1

\* fetcher.rs vet_url: a source the form accepted is not refused by the fetch
\* while its name answers the same and the switch has not been edited; with
\* private addresses allowed the form asks no name at all.
SavedSourcesAreFetched ==
    (fetch.at = "done" /\ fetch.hop = 0 /\ fetch.attempt = 0 /\ seen.requests = 0
        /\ fetch.answered = fetch.saved /\ fetch.agreed) => fetchAllow

\* A download stays within what its source was saved with: origin, number of
\* requests, address policy.
DownloadKeepsToItsSource == HeadersStayHome /\ DownloadIsBounded /\ SavedSourcesAreFetched
=============================================================================
