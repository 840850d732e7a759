--------------------------- MODULE MCCrawlerFetch ---------------------------
(* Small previews and pages for CrawlerFetch.                             *)
EXTENDS CrawlerFetch, TLC

Page(site, title, emails, phones, links, long) ==
  [site |-> site, title |-> title, emails |-> emails, phones |-> phones, whatsapps |-> <<>>,
   links |-> links, long |-> long]

SmallPages ==
  {Page(Nothing, "t", <<Match("a", "upper"), Match("b", "lower"), Match("a", "lower")>>,
        <<Match("1", "spaced")>>, <<Match("2", "plain")>>, TRUE),
   Page("s", Nothing, <<>>, <<>>, <<>>, FALSE)}

Call(host, www, retries, respect) ==
  [url |-> Url(host, www, 0), retries |-> retries, respect |-> respect]
SmallCalls == {Call("h", FALSE, 1, TRUE), Call("h", TRUE, 0, FALSE), Call("g", FALSE, 0, FALSE)}
=============================================================================
