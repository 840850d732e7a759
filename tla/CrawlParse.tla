----------------------------- MODULE CrawlParse -----------------------------
(***************************************************************************)
(* What the crawler makes of a page (crawler/extractors.py, parse.py).     *)
(*                                                                         *)
(* A page is its site name, its title, the mail addresses, phone numbers   *)
(* and WhatsApp numbers its visible text matches, each in order, and       *)
(* whether that text is long.  A match is what it says and the case and    *)
(* blanks it is written with.                                              *)
(***************************************************************************)
EXTENDS Integers, SequencesExt

CONSTANT Nothing  \* no text

\* www: whether the host begins with that label; port: 0 for none.
Url(host, www, port) == [host |-> host, www |-> www, port |-> port]

Match(says, form) == [says |-> says, form |-> form]

\* The first of the matches that say the same.
UniqueMatches(ms) ==
  LET ordered[n \in 0 .. Len(ms)] ==
        IF n = 0 THEN <<>>
        ELSE LET seen == ordered[n - 1]
             IN  IF \E k \in DOMAIN seen : seen[k].says = ms[n].says THEN seen
                 ELSE Append(seen, ms[n])
  IN  ordered[Len(ms)]

\* Mail addresses lose their case, numbers keep the way they are written.
Says(ms) == [n \in 1 .. Len(ms) |-> ms[n].says]

ExtractContacts(page) ==
  [emails    |-> Says(UniqueMatches(page.emails)),
   phones    |-> UniqueMatches(page.phones),
   whatsapps |-> UniqueMatches(page.whatsapps \o page.links)]

\* The site's own name, or the title up to a separator, or the host without www.
ExtractCompanyName(page, url) ==
  CASE page.site # Nothing  -> page.site
    [] page.title # Nothing -> page.title
    [] OTHER                -> url.host

\* With www, unlike the domain of the limiter.
WebsiteOrigin(url) == <<url.host, url.www, url.port>>

If(b, n) == IF b THEN n ELSE 0

\* In hundredths.
BaseConfidence(company, title, contacts, long) ==
  15 + If(company # Nothing, 20) + If(title # Nothing, 15) + If(contacts.emails # <<>>, 20)
     + If(contacts.phones # <<>>, 15) + If(contacts.whatsapps # <<>>, 10) + If(long, 5)

FirstOf(s) == IF s = <<>> THEN Nothing ELSE s[1]

\* Bug: only the first address of a page makes a record.
ParseFirst(url, page) ==
  LET contacts == ExtractContacts(page)
      company  == ExtractCompanyName(page, url)
  IN  <<[company |-> company, website |-> WebsiteOrigin(url), title |-> page.title,
         email |-> FirstOf(contacts.emails), phone |-> FirstOf(contacts.phones),
         whatsapp |-> FirstOf(contacts.whatsapps), source |-> url,
         confidence |-> BaseConfidence(company, page.title, contacts, page.long)]>>

\* A record for each mail address, or else one for the page.
ParseHtml(url, page) ==
  LET contacts == ExtractContacts(page)
      company  == ExtractCompanyName(page, url)
      Record(email) ==
        [company |-> company, website |-> WebsiteOrigin(url), title |-> page.title, email |-> email,
         phone |-> FirstOf(contacts.phones), whatsapp |-> FirstOf(contacts.whatsapps),
         source |-> url, confidence |-> BaseConfidence(company, page.title, contacts, page.long)]
  IN  IF contacts.emails = <<>> THEN <<Record(Nothing)>>
      ELSE [n \in 1 .. Len(contacts.emails) |-> Record(contacts.emails[n])]

\* The first record of each website and address.
SameContact(record, other) == record.website = other.website /\ record.email = other.email

DedupeRecords(records) ==
  LET deduped[n \in 0 .. Len(records)] ==
        IF n = 0 THEN <<>>
        ELSE LET seen == deduped[n - 1]
             IN  IF \E k \in DOMAIN seen : SameContact(seen[k], records[n]) THEN seen
                 ELSE Append(seen, records[n])
  IN  deduped[Len(records)]
=============================================================================
