----------------------------- MODULE DedupeKey -----------------------------
(***************************************************************************)
(* The key by which two samples are recognised as the same lead            *)
(* (services/dedupe_service.py): the origin of the page and the mail       *)
(* address, or, failing these, the page and the names on it.               *)
(*                                                                         *)
(* A text is its words and the case and blanks they are written with.  A   *)
(* URL is its parts; the order of its query items does not matter, since   *)
(* the code sorts them, and a repeated item is not distinguished.          *)
(***************************************************************************)
EXTENDS Integers, FiniteSets

CONSTANT Nothing  \* an empty text, a missing or unusable URL, no key

Text(words, form) == [words |-> words, form |-> form]

\* port: the port written in the URL, 0 when there is none.  query: the items
\* written, each with a name, whether it is a tracking item, and whether its
\* value is blank.
Item(name, tracks, blank) == [name |-> name, tracks |-> tracks, blank |-> blank]
Url(scheme, host, port, path, slash, query) ==
  [scheme |-> scheme, host |-> host, port |-> port, path |-> path,
   slash |-> slash, query |-> query]

NormalizeText(t) == IF t = Nothing THEN Nothing ELSE t.words

\* Blanks inside of an address are kept, but the addresses of the model have none.
NormalizeEmail(t) == IF t = Nothing THEN Nothing ELSE t.words

DefaultPort(scheme) == IF scheme = "http" THEN 80 ELSE 443

\* Bug: the default port stays in the URL.
NormalizeUrlKeepingPort(u) ==
  IF u = Nothing THEN Nothing
  ELSE LET scheme == IF u.scheme = "" THEN "https" ELSE u.scheme
       IN  IF scheme \notin {"http", "https"} \/ u.host = Nothing THEN Nothing
           ELSE Url(scheme, Text(NormalizeText(u.host), "lower"), u.port, u.path, u.path = "", {})

\* A URL without a scheme is taken for https, one of another scheme is dropped;
\* the host loses its case, and the default port, the slash at the end of a path
\* and the items that only track are removed, as are those without a value.
NormalizeUrl(u) ==
  IF u = Nothing THEN Nothing
  ELSE LET scheme == IF u.scheme = "" THEN "https" ELSE u.scheme
       IN  IF scheme \notin {"http", "https"} \/ u.host = Nothing THEN Nothing
           ELSE Url(scheme, Text(NormalizeText(u.host), "lower"),
                    IF u.port = DefaultPort(scheme) THEN 0 ELSE u.port,
                    u.path, u.path = "",
                    {i \in u.query : ~i.tracks /\ ~i.blank})

OriginFromUrl(u) ==
  LET n == NormalizeUrl(u)
  IN  IF n = Nothing THEN Nothing ELSE [scheme |-> n.scheme, host |-> n.host, port |-> n.port]

First(a, b) == IF a # Nothing THEN a ELSE b

\* A page is [website, email, company, title, source_url], the names as texts.
BuildDedupeKey(website, email, company, title, source_url) ==
  LET origin == First(OriginFromUrl(website), OriginFromUrl(source_url))
      url    == First(NormalizeUrl(source_url), NormalizeUrl(website))
      mail   == NormalizeEmail(email)
      names  == <<NormalizeText(company), NormalizeText(title)>>
  IN  IF origin # Nothing /\ mail # Nothing THEN <<"email_origin", origin, mail>>
      ELSE IF url # Nothing /\ names # <<Nothing, Nothing>> THEN <<"fallback_signature", url, names>>
      ELSE Nothing

\* What create_sample takes from the payload and the columns of a new sample.
KeyOfNewSample(s) ==
  BuildDedupeKey(First(s.website, s.source_url), s.email, First(s.company, s.source_name),
                 s.title, s.source_url)

\* The second attempt, when the first gave no key: the source name within the
\* payload is tried before that of the column.
ExtractDedupeKeyFromSample(s) ==
  BuildDedupeKey(First(s.website, s.source_url), s.email,
                 First(s.company, First(s.payload_source_name, s.source_name)),
                 s.title, s.source_url)
=============================================================================
