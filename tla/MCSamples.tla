----------------------------- MODULE MCSamples -----------------------------
(* Small pages for Samples.                                               *)
EXTENDS Samples, TLC

Page(website, email, company, source_url) ==
  [website |-> website, email |-> email, company |-> company, payload_source_name |-> Nothing,
   source_name |-> Nothing, title |-> Nothing, source_url |-> source_url]

Bare(host, port) == Url("", host, port, "", FALSE, {})
Acme  == Text("acme", "lower")
ACME  == Text("acme", "upper")
Sales == Text("sales@acme", "lower")
SALES == Text("sales@acme", "upper")
Deep  == Url("https", ACME, 443, "parts", TRUE, {Item("utm_source", TRUE, FALSE)})

\* One lead in two spellings, and a page without address or name, which has no key.
Plain == Page(Bare(Acme, 0), Sales, Nothing, Nothing)
Loud  == Page(Url("ftp", Acme, 0, "", FALSE, {}), SALES, Acme, Deep)
Blank == Page(Nothing, Nothing, Nothing, Deep)

Crawled(payload, claim, status) == [payload |-> payload, claim |-> claim, status |-> status]

SmallPages == {Crawled(Plain, FALSE, "pending"), Crawled(Loud, TRUE, "approved"),
               Crawled(Blank, FALSE, "failed")}

Symmetry == Permutations(Requests) \cup Permutations(Jobs)
=============================================================================
