------------------------------- MODULE Payload -------------------------------
(***************************************************************************)
(* A subscription document on its way in (parsers/mod.rs, the Xray dialect *)
(* of parsers/singbox.rs) and the list of names on its way out             *)
(* (formats/mod.rs dedupe_names).                                          *)
(***************************************************************************)
EXTENDS Naturals, Sequences, FiniteSets, SequencesExt

CONSTANTS ShownNames,   \* display names a feed may give: a base and its numbers
          MaxNames,     \* bound of one list
          LineLists,    \* the documents a feed may be, each the kinds of its lines
          Outbounds     \* Xray outbounds a feed may carry

\* A name is a list of its parts, an outbound lists its endpoints.
ASSUME NameAssumption ==
    /\ MaxNames \in Nat
    /\ \A name \in ShownNames : Len(name) \in Nat /\ name = [i \in 1..Len(name) |-> name[i]]
ASSUME OutboundAssumption == \A o \in Outbounds : o.endpoints \in Seq(Range(o.endpoints))

VARIABLES text,         \* the document, and how the source reads it
          detected,     \* the format it was parsed as ("" before, "error" when unusable), the links read
          names,        \* the names as written so far
          suffixes,     \* next_suffix of dedupe_names
          outbound, element, built, invalid

payloadVars == <<text, detected, names, suffixes, outbound, element, built, invalid>>

-----------------------------------------------------------------------------
(* Decoding and detection.  A document is its lines, each of a kind:        *)
(*   link `vless://…`, comment `# …`, heading a comment that says           *)
(*   `proxies:`, note plain words, bracketed `[Premium] …`, blank;          *)
(*   proxies the key at the start of a line, key another top-level key,     *)
(*   item a list item, nested an item with `proxies:` in it (a group);      *)
(*   object `{"outbounds": …`, array `[{"outbounds": …`, json what follows  *)
(*   an opening brace, flow a Clash document in braces.                     *)

FormatKinds == {"url_list", "clash", "singbox"}
LineKinds == {"link", "comment", "heading", "note", "bracketed", "blank", "proxies", "key", "item", "nested",
              "object", "array", "json", "flow"}
Texts == [lines : LineLists, base64 : BOOLEAN, encoding : {"auto", "plain", "base64"}, pin : {"none"} \cup FormatKinds]

ASSUME LineAssumption == \A lines \in LineLists : lines \in Seq(LineKinds)

HasLine(lines, kinds) == \E i \in DOMAIN lines : lines[i] \in kinds
Kept(lines, skipped) == {i \in DOMAIN lines : lines[i] \notin skipped}
Opens(lines, skipped, kinds) ==
    \E i \in Kept(lines, skipped) : lines[i] \in kinds /\ \A j \in Kept(lines, skipped) : i <= j
Links(lines) == {i \in DOMAIN lines : lines[i] = "link"}

\* What the parsers of a whole document accept: a brace or bracket and what
\* belongs to it; one `proxies` key with a list, YAML before and after it.
Braced(lines, skipped, kinds) ==
    \E i \in Kept(lines, skipped) : lines[i] \in kinds
                                    /\ \A j \in Kept(lines, skipped) : j = i \/ (j > i /\ lines[j] = "json")
IsJson(lines) == Braced(lines, {"blank"}, {"object", "array"})
YamlSkips == {"blank", "comment", "heading"}
IsClash(lines) ==
    \/ Braced(lines, YamlSkips, {"flow"})
    \/ /\ Opens(lines, YamlSkips, {"proxies", "key"})
       /\ \E p, first \in Kept(lines, YamlSkips) :
             /\ lines[p] = "proxies" /\ lines[first] \in {"item", "nested"} /\ p < first
             /\ \A j \in Kept(lines, YamlSkips) : j <= p \/ first <= j
             /\ \A j \in Kept(lines, YamlSkips) : j = p \/ lines[j] \in {"key", "item", "nested"}

\* Only a wrapped document is valid base64 text; a blank one does not count.
decodes(t) == t.base64 /\ Kept(t.lines, {"blank"}) # {}

\* Mutant: only a URI list is believed to be what was wrapped.
looks_like_subscription_link(lines) == HasLine(lines, {"link"})
looks_like_subscription(lines) ==
    \/ HasLine(lines, {"link"}) \/ HasLine(lines, {"proxies", "nested", "heading", "flow"})
    \/ Opens(lines, {"blank"}, {"object", "array", "flow", "bracketed"})

\* Wrapped text that stays wrapped is one line of letters.
decode_payload(t) ==
    IF t.base64 /\ ~(decodes(t) /\ (t.encoding = "base64"
                                       \/ (t.encoding = "auto" /\ looks_like_subscription(t.lines))))
    THEN <<"note">> ELSE t.lines

\* Mutant: `proxies:` counts wherever it stands.
detect_format_anywhere(lines) ==
    IF Opens(lines, {"blank"}, {"object", "array", "flow", "bracketed"}) THEN "singbox"
    ELSE IF HasLine(lines, {"proxies", "nested", "heading"}) THEN "clash" ELSE "url_list"
detect_format(lines) ==
    IF Opens(lines, {"blank"}, {"object", "array", "flow", "bracketed"}) THEN "singbox"
    ELSE IF HasLine(lines, {"proxies"}) THEN "clash" ELSE "url_list"

\* The links a URI list gives; a document that is none of its format is refused.
Unread == [format |-> "", links |-> {}]
Unusable == [format |-> "error", links |-> {}]
ReadAs(format, lines) ==
    IF (format = "clash" /\ ~IsClash(lines)) \/ (format = "singbox" /\ ~IsJson(lines)) THEN Unusable
    ELSE [format |-> format, links |-> IF format = "url_list" THEN Links(lines) ELSE {}]

\* Mutant: the source's format column is taken as it is, unset or not.
parse_subscription_pinned(t) ==
    IF t.encoding = "base64" /\ ~decodes(t) THEN Unusable ELSE ReadAs(t.pin, decode_payload(t))
parse_subscription(t) ==
    LET lines == decode_payload(t)
    IN  IF t.encoding = "base64" /\ ~decodes(t) THEN Unusable
        ELSE ReadAs(IF t.pin = "none" THEN detect_format(lines) ELSE t.pin, lines)

Parse == detected = Unread /\ detected' = parse_subscription(text)
         /\ UNCHANGED <<text, names, suffixes, outbound, element, built, invalid>>

-----------------------------------------------------------------------------
(* dedupe_names, one name at a time.  The counter of a name never rewinds.  *)

Suffix(name) == IF name \in DOMAIN suffixes THEN suffixes[name] ELSE 1

\* Mutant: the numbered candidate is not looked up.
Numbered_unchecked(name, taken) == Suffix(name) + 1
Numbered(name, taken) ==
    CHOOSE n \in Suffix(name) + 1 .. Suffix(name) + 1 + Cardinality(taken) :
        /\ Append(name, n) \notin taken
        /\ \A m \in Suffix(name) + 1 .. n - 1 : Append(name, m) \in taken

dedupe_name(name) ==
    /\ Len(names) < MaxNames
    /\ LET taken == ToSet(names)
       IN  IF name \notin taken
           THEN names' = Append(names, name) /\ UNCHANGED suffixes
           ELSE /\ names' = Append(names, Append(name, Numbered(name, taken)))
                /\ suffixes' = [other \in DOMAIN suffixes \cup {name} |->
                                    IF other = name THEN Numbered(name, taken) ELSE suffixes[other]]
    /\ UNCHANGED <<text, detected, outbound, element, built, invalid>>

-----------------------------------------------------------------------------
(* One Xray outbound: its endpoints in turn, and the users of each.  A user *)
(* is "good", "bare" (its credential is missing) or "broken" (finish        *)
(* refuses it, a line break); trojan and ss carry one credential per        *)
(* server, a socks server without users is an open one.                     *)

Credentials(o, i) ==
    IF o.protocol = "socks" /\ o.endpoints[i].users = << >> THEN <<"open">> ELSE o.endpoints[i].users

\* A socks user without a name or password is one with empty ones.
Usable(o, user) == user \in {"good", "open"} \/ (user = "bare" /\ o.protocol = "socks")

\* Mutant: an endpoint without an address ends the outbound.
Visited_stops(o, i) == \A j \in 1..i : o.endpoints[j].address
Visited(o, i) == o.endpoints[i].address

Endpoint ==
    /\ element < Len(outbound.endpoints)
    /\ LET i == element + 1
       IN  /\ element' = i
           /\ built' = IF Visited(outbound, i)
                       THEN built \cup {<<i, j>> : j \in {k \in DOMAIN Credentials(outbound, i) :
                                                            Usable(outbound, Credentials(outbound, i)[k])}}
                       ELSE built
           /\ invalid' = (i = Len(outbound.endpoints) /\ built' = {})
    /\ UNCHANGED <<text, detected, names, suffixes, outbound>>

-----------------------------------------------------------------------------
PayloadInit == /\ text \in Texts /\ detected = Unread
               /\ names = << >> /\ suffixes = << >>
               /\ outbound \in Outbounds /\ element = 0 /\ built = {} /\ invalid = FALSE
PayloadNext == Parse \/ Endpoint \/ \E name \in ShownNames : dedupe_name(name)
PayloadSpec == PayloadInit /\ [][PayloadNext]_payloadVars

PayloadTypeOK == /\ detected \in [format : FormatKinds \cup {"", "error"}, links : SUBSET Nat]
                 /\ Len(names) <= MaxNames
                 /\ \A name \in DOMAIN suffixes : suffixes[name] \in 2..MaxNames

\* A URI list: links, and lines that are counted and skipped.
IsList(lines) ==
    HasLine(lines, {"link"}) /\ ~HasLine(lines, LineKinds \ {"link", "comment", "heading", "note", "bracketed", "blank", "proxies"})
IsOf(format, lines) == IF format = "clash" THEN IsClash(lines)
                       ELSE IF format = "singbox" THEN IsJson(lines) ELSE IsList(lines)

\* What the leading character and the `proxies:` line cannot tell: a list whose
\* first line is bracketed or one of whose lines starts with `proxies:`, and a
\* Clash document in braces.
Ambiguous(lines) == \/ HasLine(lines, {"flow"})
                    \/ HasLine(lines, {"link"}) /\ (HasLine(lines, {"proxies"}) \/ Opens(lines, {"blank"}, {"bracketed"}))

\* parsers/mod.rs decode_payload, detect_format: a document is read as what it
\* is and a list down to its last link, wrapped or not, whatever headings,
\* groups and blank lines it carries, when the source pins its format; and, but
\* for the ambiguous ones, when the source leaves the format open.
DocumentsAreRecognised ==
    \A format \in FormatKinds :
        /\ detected # Unread
        /\ text.encoding \in {"auto", IF text.base64 THEN "base64" ELSE "plain"}
        /\ IsOf(format, text.lines)
        /\ text.pin = format \/ (text.pin = "none" /\ ~Ambiguous(text.lines))
        => detected = [format |-> format, links |-> IF format = "url_list" THEN Links(text.lines) ELSE {}]

\* formats/mod.rs dedupe_names: the names of one document are all different,
\* whatever numbers the feed's own names carry (mihomo and sing-box refuse a
\* document that repeats one).
NamesAreUnique == \A i, j \in DOMAIN names : names[i] = names[j] => i = j

\* parsers/singbox.rs: "An endpoint that yielded nothing costs only itself, and
\* the outbound is counted as invalid only when no endpoint produced an entry".
JunkCostsOnlyItself ==
    element = Len(outbound.endpoints) =>
        /\ \A i \in 1..element : \A j \in DOMAIN outbound.endpoints[i].users :
              (outbound.endpoints[i].address /\ outbound.endpoints[i].users[j] = "good") => <<i, j>> \in built
        /\ invalid <=> (built = {} /\ element > 0)

\* A document is read as what it is, entry by entry, and written with
\* distinct names.
DocumentsSurviveTheirFormat == DocumentsAreRecognised /\ NamesAreUnique /\ JunkCostsOnlyItself
=============================================================================
