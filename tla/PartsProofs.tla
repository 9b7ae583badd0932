----------------------------- MODULE PartsProofs -----------------------------
(* Proofs about the parts, for all data that fits their assumptions.        *)
EXTENDS Parts, FiniteSetTheorems, TLAPS

------------------------------------------------------------------------------
(* SimpleIndex *)

(* A listing that reads, as one in format f, as projects of one time.       *)
Whole(l, f) == l \in Index!Listings /\ l.format = f /\ Index!ReadAs(l, f) \in past

EntriesAreWhole == \A f \in Index!Formats : entries[f] # None => Whole(entries[f], f)
AnswersAreWhole ==
    \A c \in Clients : answer[c] \notin {None, Index!Failed} => Whole(answer[c], format[c])
TakenAtOneTime == \A c \in Clients : got[c] # None => Index!NamesIn(got[c]) \in past
IndexInv == Index!TypeOK /\ EntriesAreWhole /\ AnswersAreWhole /\ TakenAtOneTime

(* What is written anew has the names it is written for; what is passed on  *)
(* as it came reads as the names that would have been taken from it.        *)
LEMMA NamesAreKept ==
    ASSUME NEW l \in Index!Listings, NEW f \in Index!Formats
    PROVE  /\ Index!Rendered(l, f) \in Index!Listings /\ Index!Rendered(l, f).format = f
           /\ Index!ReadAs(Index!Rendered(l, f), f) = Index!NamesIn(l)
<1> DEFINE names == Index!NamesIn(l)
           shape == IF f = "json" THEN "record" ELSE "anchor"
           items == {[text |-> n, shape |-> shape] : n \in names}
<1>1. PICK g \in Index!Formats : l \in [format : {g}, items : SUBSET Index!ItemsIn(g)]
  BY DEF Index!Listings
<1>2. \A i \in l.items : i.text \in Index!TextsIn(g) /\ i.shape \in Index!Shapes(g)
  BY <1>1 DEF Index!ItemsIn
<1>3. names \subseteq Names /\ Blank \notin names
  BY <1>1, <1>2, IndexData DEF Index!DataAssumption, Index!NamesIn, Index!TextsIn
<1>4. CASE l.format = "html" /\ f = "html"
  <2>1. Index!Rendered(l, f) = l
    BY <1>4 DEF Index!Rendered
  <2>2. \A i \in l.items : i.shape = "anchor"
    BY <1>1, <1>2, <1>4 DEF Index!Shapes
  <2>3. {i \in l.items : i.shape = "anchor"} = l.items
    BY <2>2
  <2>4. Index!ReadAs(l, f) = names
    BY <1>4, <2>3 DEF Index!ReadAs, Index!NamesIn
  <2>5. QED
    BY <1>4, <2>1, <2>4
<1>5. CASE ~(l.format = "html" /\ f = "html")
  <2>1. Index!Rendered(l, f) = [format |-> f, items |-> items]
    BY <1>5 DEF Index!Rendered, Index!Synthesized
  <2> HIDE DEF names
  <2>2. items \subseteq Index!ItemsIn(f)
    BY <1>3 DEF Index!ItemsIn, Index!TextsIn, Index!Shapes
  <2>3. {j \in items : j.shape = shape} = items
    OBVIOUS
  <2>4. ASSUME NEW t PROVE t \in {i.text : i \in items} <=> t \in names
    <3>1. ASSUME NEW i \in items PROVE i.text \in names
      OBVIOUS
    <3>2. ASSUME t \in names PROVE \E i \in items : t = i.text
      <4>1. [text |-> t, shape |-> shape] \in items /\ [text |-> t, shape |-> shape].text = t
        BY <3>2
      <4>2. QED
        BY <4>1
    <3>3. QED
      BY <3>1, <3>2
  <2>5. {i.text : i \in items} = names
    BY <2>4
  <2>6. Index!ReadAs([format |-> f, items |-> items], f) = names
    BY <1>3, <2>3, <2>5 DEF Index!ReadAs, Index!Formats
  <2>7. [format |-> f, items |-> items] \in Index!Listings
    BY <2>2 DEF Index!Listings, Index!Formats
  <2>8. QED
    BY <2>1, <2>6, <2>7 DEF names
<1>6. QED
  BY <1>4, <1>5

LEMMA IndexInit == Index!Init => IndexInv
BY DEF Index!Init, IndexInv, Index!TypeOK, Index!Formats, EntriesAreWhole, AnswersAreWhole, TakenAtOneTime

LEMMA IndexStep ==
    ASSUME IndexInv, Index!Next
    PROVE  IndexInv'
<1> USE IndexData DEF Index!DataAssumption, Index!TypeOK, Index!Goes
<1>1. ASSUME NEW c \in Clients, Index!Ask(c) PROVE IndexInv'
  BY <1>1 DEF Index!Ask, IndexInv, EntriesAreWhole, AnswersAreWhole, TakenAtOneTime, Whole
<1>2. ASSUME NEW c \in Clients, Index!Lookup(c) PROVE IndexInv'
  BY <1>2 DEF Index!Lookup, IndexInv, EntriesAreWhole, AnswersAreWhole, TakenAtOneTime, Whole
<1>3. ASSUME NEW c \in Clients, Index!Fetch(c) PROVE IndexInv'
  BY <1>3 DEF Index!Fetch, Index!Fails, IndexInv, EntriesAreWhole, AnswersAreWhole, TakenAtOneTime, Whole
<1>4. ASSUME NEW c \in Clients, Index!StoreAndAnswer(c) PROVE IndexInv'
  <2>1. PICK body : body = Index!Rendered(got[c], format[c])
    OBVIOUS
  <2>2. got[c] \in Index!Listings /\ format[c] \in Index!Formats /\ Index!NamesIn(got[c]) \in past
    BY <1>4 DEF Index!StoreAndAnswer, IndexInv, TakenAtOneTime
  <2>3. Whole(body, format[c])
    BY <2>1, <2>2, NamesAreKept DEF Whole
  <2>4. /\ pc[c] = "store" /\ UNCHANGED <<upstream, format, past>>
        /\ got' = [got EXCEPT ![c] = None]
        /\ pc' = [pc EXCEPT ![c] = "answered"]
        /\ \/ /\ entries' = [entries EXCEPT ![format[c]] = body]
              /\ answer' = [answer EXCEPT ![c] = body]
           \/ /\ answer' = [answer EXCEPT ![c] = Index!Failed]
              /\ UNCHANGED entries
    BY <1>4, <2>1 DEF Index!StoreAndAnswer, Index!Fails
  <2>5. QED
    BY <2>2, <2>3, <2>4 DEF IndexInv, EntriesAreWhole, AnswersAreWhole, TakenAtOneTime, Whole
<1>5. ASSUME NEW c \in Clients, Index!Leave(c) PROVE IndexInv'
  BY <1>5 DEF Index!Leave, Index!Formats, IndexInv, EntriesAreWhole, AnswersAreWhole, TakenAtOneTime, Whole
<1>6. CASE Index!Expire
  BY <1>6 DEF Index!Expire, IndexInv, EntriesAreWhole, AnswersAreWhole, TakenAtOneTime, Whole
<1>7. CASE Index!Publish
  BY <1>7 DEF Index!Publish, IndexInv, EntriesAreWhole, AnswersAreWhole, TakenAtOneTime, Whole
<1>8. QED
  BY <1>1, <1>2, <1>3, <1>4, <1>5, <1>6, <1>7 DEF Index!Next, Index!Step

(* In whatever form upstream lists its projects, and in whatever order      *)
(* requests fetch, store and share listings while projects come and go: an  *)
(* answer, read in the format asked for, has the projects of one time.      *)
THEOREM ListingsKeepTheProjects == Spec => []ListingsAreWhole
<1> DEFINE Inv == part = "listing" => IndexInv
<1>1. Init => Inv
  BY IndexInit DEF Init
<1>2. Inv /\ [Next]_vars => Inv'
  <2> SUFFICES ASSUME IndexInv, [Next]_vars, part = "listing", part' = "listing" PROVE IndexInv'
    BY DEF Next, vars, ReadWheel, FollowLink, ConvertEntry, NegotiateFormat, AnswerListing
  <2>1. CASE Next
    BY <2>1, IndexStep DEF Next, ReadWheel, FollowLink, ConvertEntry, NegotiateFormat, AnswerListing
  <2>2. CASE UNCHANGED vars
    BY <2>2 DEF vars, formatVars, indexVars, IndexInv, Index!TypeOK, EntriesAreWhole, AnswersAreWhole,
       TakenAtOneTime, Whole
  <2>3. QED
    BY <2>1, <2>2
<1>3. Inv => ListingsAreWhole
  BY DEF IndexInv, AnswersAreWhole, Whole, Index!TypeOK, ListingsAreWhole, Index!ListingsAreWhole
<1>4. QED
  BY <1>1, <1>2, <1>3, PTL DEF Spec
------------------------------------------------------------------------------
(* Negotiation *)

(* What is served is the representation chosen from what upstream sent.     *)
FormatInv ==
    /\ accept \in Headers
    /\ upstream \in Format!Pages \cup {None}
    /\ served # None => upstream # None /\ served = Format!Representation

LEMMA SpecificityIsSmall ==
    ASSUME NEW range, NEW type
    PROVE  Format!Specificity(range, type) \in {-1, 0, 1, 2}
BY DEF Format!Specificity

(* The instance counts as FiniteSets does. *)
LEMMA FormatCounts == ASSUME NEW S PROVE Format!Cardinality(S) = Cardinality(S)
BY DEF Format!Cardinality, Cardinality

(* A type named at most once is named in one place. *)
LEMMA NamedOnce ==
    ASSUME accept \in Headers, NEW type, NEW i \in Format!Named(type),
           Cardinality(Format!Named(type)) <= 1
    PROVE  Format!Named(type) = {i}
<1> DEFINE N == Format!Named(type)
<1>1. IsFiniteSet(N)
  <2>1. Len(accept) \in Nat
    BY FormatData DEF Format!DataAssumption
  <2>2. IsFiniteSet(1..Len(accept)) /\ N \subseteq 1..Len(accept)
    BY <2>1, FS_Interval DEF Format!Named
  <2>3. QED
    BY <2>2, FS_Subset
<1>2. SUFFICES ASSUME NEW j \in N, j # i PROVE FALSE
  BY DEF Format!Named
<1>3. IsFiniteSet({i, j}) /\ Cardinality({i, j}) = 2
  <2>1. IsFiniteSet({i}) /\ Cardinality({i}) = 1
    BY FS_Singleton
  <2>2. {i, j} = {i} \cup {j} /\ j \notin {i}
    BY <1>2
  <2>3. QED
    BY <2>1, <2>2, FS_AddElement
<1>4. {i, j} \subseteq N
  BY <1>2
<1>5. Cardinality({i, j}) <= Cardinality(N) /\ Cardinality(N) \in Nat
  BY <1>1, <1>4, FS_Subset, FS_CardinalityType
<1>6. QED
  BY <1>3, <1>5

(* What is named once decides for JSON, and for HTML.                       *)
LEMMA JsonByName ==
    ASSUME accept \in Headers, NEW i, Format!Named(Format!JSON) = {i}
    PROVE  Format!WantJson <=> accept[i].q > 0
<1>1. Format!Min({i}) = i
  <2>1. i \in 1..Len(accept)
    BY DEF Format!Named
  <2>2. i \in Int
    BY <2>1, FormatData DEF Format!DataAssumption
  <2>3. QED
    BY <2>2 DEF Format!Min
<1>2. QED
  BY <1>1 DEF Format!WantJson, Format!Named

LEMMA HtmlByName ==
    ASSUME accept \in Headers, NEW i, Format!Named(Format!HTML) = {i}, accept[i].q = 0
    PROVE  ~Format!AcceptsHtml
<1> DEFINE HTML == Format!HTML
           ranks == {Format!Specificity(accept[k], HTML) : k \in Format!Covering(HTML)}
<1>1. i \in 1..Len(accept) /\ Format!Specificity(accept[i], HTML) = 2
  BY DEF Format!Named
<1>2. i \in Format!Covering(HTML) /\ 2 \in ranks
  BY <1>1 DEF Format!Covering
<1>3. \A r \in ranks : r \in {-1, 0, 1, 2}
  BY SpecificityIsSmall
<1>4. Format!Max(ranks) = 2
  <2>1. 2 \in ranks /\ \A r \in ranks : 2 >= r
    BY <1>2, <1>3
  <2>2. \A x \in ranks : (\A r \in ranks : x >= r) => x = 2
    BY <1>2, <1>3
  <2>3. QED
    BY <2>1, <2>2 DEF Format!Max
<1>5. {k \in Format!Covering(HTML) : Format!Specificity(accept[k], HTML) = 2} = {i}
  BY <1>1, <1>2 DEF Format!Covering, Format!Named
<1>6. {accept[k].q : k \in {i}} = {0} /\ Format!Max({0}) = 0
  BY DEF Format!Max
<1>7. Format!Quality(HTML) = 0
  BY <1>2, <1>4, <1>5, <1>6 DEF Format!Quality
<1>8. accept # <<>>
  BY <1>1
<1>9. QED
  BY <1>7, <1>8 DEF Format!AcceptsHtml, Format!Positive

LEMMA RepresentationIsWelcome == FormatInv => Format!RefusedIsNotServed
<1> SUFFICES ASSUME FormatInv, served # None,
                    \A t \in Format!Pages : Cardinality(Format!Named(t)) <= 1,
                    NEW i \in Format!Named(served), accept[i].q = 0,
                    NEW t \in Format!Pages, NEW j \in Format!Named(t), accept[j].q > 0
             PROVE  FALSE
  BY FormatCounts DEF Format!RefusedIsNotServed, Format!Refused, Format!Welcome
<1>1. accept \in Headers /\ upstream \in Format!Pages /\ served = Format!Representation
  BY DEF FormatInv
<1>2. served \in Format!Pages
  BY <1>1 DEF Format!Representation, Format!Pages
<1>3. Format!Named(served) = {i} /\ Format!Named(t) = {j}
  BY <1>1, <1>2, NamedOnce
<1>4. t # served
  BY <1>3
<1>5. Format!JSON # Format!HTML
  BY DEF Format!JSON, Format!HTML
<1>6. CASE served = Format!JSON
  <2>1. ~Format!WantJson
    BY <1>1, <1>3, <1>6, JsonByName
  <2>2. QED
    BY <1>1, <1>5, <1>6, <2>1 DEF Format!Representation, Format!Pages
<1>7. CASE served = Format!HTML
  <2>1. t = Format!JSON
    BY <1>4, <1>7 DEF Format!Pages
  <2>2. Format!WantJson /\ ~Format!AcceptsHtml
    BY <1>1, <1>3, <1>7, <2>1, JsonByName, HtmlByName
  <2>3. QED
    BY <1>1, <1>5, <1>7, <2>2 DEF Format!Representation, Format!Pages
<1>8. QED
  BY <1>2, <1>6, <1>7 DEF Format!Pages

LEMMA FormatStep == ASSUME FormatInv, Format!Next PROVE FormatInv'
<1>1. CASE Format!Fetch
  BY <1>1 DEF Format!Fetch, FormatInv
<1>2. CASE Format!Serve
  BY <1>2 DEF Format!Serve, FormatInv, Format!Representation, Format!WantJson, Format!AcceptsHtml,
     Format!Quality, Format!Covering
<1>3. QED
  BY <1>1, <1>2 DEF Format!Next

(* Whatever ranges a client sends: a format it refuses by name it never     *)
(* gets while it welcomes the other.                                        *)
THEOREM RefusalsAreKept == Spec => []RefusedIsNotServed
<1> DEFINE Inv == part = "format" => FormatInv
<1>1. Init => Inv
  BY DEF Init, Format!Init, FormatInv
<1>2. Inv /\ [Next]_vars => Inv'
  <2> SUFFICES ASSUME FormatInv, [Next]_vars, part = "format", part' = "format" PROVE FormatInv'
    BY DEF Next, vars, ReadWheel, FollowLink, ConvertEntry, NegotiateFormat, AnswerListing
  <2>1. CASE Next
    BY <2>1, FormatStep DEF Next, ReadWheel, FollowLink, ConvertEntry, NegotiateFormat, AnswerListing
  <2>2. CASE UNCHANGED vars
    BY <2>2 DEF vars, formatVars, FormatInv, Format!Representation, Format!WantJson,
       Format!AcceptsHtml, Format!Quality, Format!Covering
  <2>3. QED
    BY <2>1, <2>2
<1>3. Inv => RefusedIsNotServed
  BY RepresentationIsWelcome DEF RefusedIsNotServed
<1>4. QED
  BY <1>1, <1>2, <1>3, PTL DEF Spec
------------------------------------------------------------------------------
(* Artifacts *)

Rewritten == Way!RewriteFileUrl(link)
OnTheWay == {link, Rewritten, Way!Decoded(link), Way!Decoded(Rewritten)}

(* What is fetched is the upstream URL of the link in a form it has on its  *)
(* way; where links are rewritten as a page comes in, and need no decoding, *)
(* that is a single form.                                                   *)
WayInv ==
    /\ settings \in Settings /\ link \in Links
    /\ page \in {link, Rewritten}
    /\ \A u \in fetched : u # None /\ \E w \in OnTheWay : u = Way!ArtifactUpstreamUrl(w)
    /\ settings.rewrite /\ ~link.path.escaped =>
        /\ IF stage = "read" THEN extracted = 0 ELSE page = Rewritten
        /\ extracted \in {0, 1}
        /\ extracted = 1 => Way!Identity(Rewritten) \in stored

LEMMA RewrittenOnce ==
    ASSUME link \in Links
    PROVE  /\ Way!IsUrl(Rewritten) /\ Rewritten.path = link.path
           /\ Way!RewriteFileUrl(Rewritten) = Rewritten
<1>1. Way!IsUrl(link)
  BY WayData DEF Way!DataAssumption
<1> DEFINE r == Way!Resolve(link)
<1>2. Way!IsUrl(r) /\ r.path = link.path
  BY <1>1 DEF Way!Resolve, Way!IsUrl
<1>3. CASE link.kind = "artifact" \/ ~Way!HostAllowed(Way!AuthorityOf(r))
  BY <1>1, <1>3 DEF Rewritten, Way!RewriteFileUrl
<1>4. CASE ~(link.kind = "artifact" \/ ~Way!HostAllowed(Way!AuthorityOf(r)))
  <2>1. Rewritten = [r EXCEPT !.kind = "artifact", !.scheme = None, !.port = Way!AuthorityOf(r).port]
    BY <1>4 DEF Rewritten, Way!RewriteFileUrl
  <2>2. Way!IsUrl(Rewritten) /\ Rewritten.path = link.path /\ Rewritten.kind = "artifact"
    BY <1>2, <2>1 DEF Way!IsUrl
  <2>3. QED
    BY <2>2 DEF Way!RewriteFileUrl
<1>5. QED
  BY <1>3, <1>4

(* A rewritten link leads back to the file it is a link to.                 *)
LEMMA LeadsBack ==
    ASSUME link \in Links, NEW w \in OnTheWay,
           Way!Resolve(link).kind = "absolute",
           Way!Resolve(link).scheme = Way!SchemeFor(Way!AuthorityOf(Way!Resolve(link))),
           Way!ArtifactUpstreamUrl(w) # None
    PROVE  Way!File(Way!ArtifactUpstreamUrl(w)) = Way!File(Way!Resolve(link))
<1> DEFINE target == Way!Resolve(link)
           allowed == Way!HostAllowed(Way!AuthorityOf(target))
<1>1. Way!IsUrl(link) /\ link.kind # "artifact"
  BY WayData DEF Way!DataAssumption, Way!Resolve, Way!IsUrl
<1>2. Way!IsUrl(target)
  BY <1>1 DEF Way!Resolve, Way!IsUrl
<1>3. ASSUME NEW u \in {link, Way!Decoded(link)}, Way!ArtifactUpstreamUrl(u) # None
      PROVE  Way!File(Way!ArtifactUpstreamUrl(u)) = Way!File(target)
  <2>1. /\ u.kind = link.kind /\ u.scheme = link.scheme /\ u.host = link.host /\ u.port = link.port
        /\ u.query = link.query /\ u.path.name = link.path.name
    BY <1>1, <1>3 DEF Way!Decoded, Way!IsUrl
  <2>2. link.kind = "absolute" /\ Way!ArtifactUpstreamUrl(u) = u
    BY <1>1, <1>3, <2>1 DEF Way!ArtifactUpstreamUrl, Way!IsUrl
  <2>3. target = link
    BY <2>2 DEF Way!Resolve
  <2>4. QED
    BY <2>1, <2>2, <2>3 DEF Way!File, Way!Port
<1>4. CASE ~allowed
  BY <1>1, <1>3, <1>4 DEF OnTheWay, Rewritten, Way!RewriteFileUrl
<1>5. ASSUME allowed, NEW u \in {Rewritten, Way!Decoded(Rewritten)}
      PROVE  Way!File(Way!ArtifactUpstreamUrl(u)) = Way!File(target)
  <2>1. Rewritten = [target EXCEPT !.kind = "artifact", !.scheme = None, !.port = Way!AuthorityOf(target).port]
    BY <1>1, <1>5 DEF Rewritten, Way!RewriteFileUrl
  <2>2. /\ Way!IsUrl(Rewritten) /\ Rewritten.kind = "artifact" /\ Rewritten.host = target.host
        /\ Rewritten.port = Way!AuthorityOf(target).port /\ Rewritten.query = target.query
        /\ Rewritten.path.name = target.path.name
    BY <1>2, <2>1 DEF Way!IsUrl
  <2>3. /\ Way!IsUrl(u) /\ u.kind = "artifact" /\ u.host = target.host
        /\ u.port = Way!AuthorityOf(target).port /\ u.query = target.query
        /\ u.path.name = target.path.name
    BY <1>5, <2>2 DEF Way!Decoded, Way!IsUrl
  <2>4. Way!Authority(u) = Way!AuthorityOf(target)
    BY <2>3 DEF Way!Authority, Way!AuthorityOf
  <2>5. Way!ArtifactUpstreamUrl(u) = [u EXCEPT !.kind = "absolute", !.scheme = target.scheme]
    BY <1>5, <2>3, <2>4 DEF Way!ArtifactUpstreamUrl
  <2> DEFINE v == Way!ArtifactUpstreamUrl(u)
  <2>6. /\ v.scheme = target.scheme /\ v.host = target.host /\ v.query = target.query
        /\ v.path.name = target.path.name /\ v.port = Way!AuthorityOf(target).port
    BY <2>3, <2>5 DEF Way!IsUrl
  <2>7. Way!Port(v) = Way!Port(target)
    BY <2>6 DEF Way!Port, Way!AuthorityOf
  <2>8. QED
    BY <2>6, <2>7 DEF Way!File
<1>6. QED
  BY <1>3, <1>4, <1>5 DEF OnTheWay

LEMMA NothingElseIsFetched == WayInv => Way!FetchedIsLinked
BY LeadsBack DEF WayInv, Way!FetchedIsLinked

(* A link in one form is looked up and stored under one identity.           *)
LEMMA ResolvedOnTheWay ==
    ASSUME WayInv, NEW u \in OnTheWay, NEW outcome \in Way!Outcomes(u), Way!Resolved(u, outcome),
           settings.rewrite /\ ~link.path.escaped => u = Rewritten
    PROVE  /\ \A v \in fetched' : v # None /\ \E w \in OnTheWay : v = Way!ArtifactUpstreamUrl(w)
           /\ settings.rewrite /\ ~link.path.escaped =>
                /\ extracted' \in {0, 1}
                /\ extracted' = 1 => Way!Identity(Rewritten) \in stored'
BY DEF WayInv, Way!Outcomes, Way!Resolved, Way!StoreKey

LEMMA WayStep == ASSUME WayInv, Way!Next PROVE WayInv'
<1>1. link' = link /\ settings' = settings
  BY DEF Way!Next, Way!Rewrite, Way!Enrich, Way!Ask
<1>2. Rewritten' = Rewritten /\ OnTheWay' = OnTheWay
  BY <1>1 DEF OnTheWay, Rewritten, Way!Decoded, Way!RewriteFileUrl, Way!Resolve, Way!HostAllowed,
     Way!ArtifactHosts, Way!AuthorityOf
<1>3. \A w : Way!ArtifactUpstreamUrl(w)' = Way!ArtifactUpstreamUrl(w)
  BY <1>1 DEF Way!ArtifactUpstreamUrl, Way!HostAllowed, Way!ArtifactHosts, Way!SchemeFor,
     Way!AuthorityOf
<1>4. Rewritten \in OnTheWay /\ link \in OnTheWay
  BY DEF OnTheWay
<1>5. CASE Way!Rewrite
  <2>1. stage = "read" /\ stage' # "read" /\ page' \in {link, Rewritten}
        /\ (settings.rewrite => page' = Rewritten) /\ UNCHANGED <<stored, fetched, extracted>>
    BY <1>5 DEF Way!Rewrite, Rewritten
  <2>2. QED
    BY <1>1, <1>2, <1>3, <2>1 DEF WayInv
<1>6. CASE Way!Enrich
  <2>1. PICK outcome \in Way!Outcomes(page) : Way!Resolved(page, outcome)
    BY <1>6 DEF Way!Enrich
  <2>2. stage = "kept" /\ stage' # "read" /\ page' \in {page, Way!RewriteFileUrl(page)}
    BY <1>6 DEF Way!Enrich
  <2>3. link \in Links /\ page \in {link, Rewritten}
        /\ (settings.rewrite /\ ~link.path.escaped => page = Rewritten)
    BY <2>2 DEF WayInv
  <2>4. page' \in {link, Rewritten} /\ (settings.rewrite /\ ~link.path.escaped => page' = Rewritten)
    BY <2>2, <2>3, RewrittenOnce DEF Rewritten
  <2>5. QED
    BY <1>1, <1>2, <1>3, <1>4, <2>1, <2>2, <2>3, <2>4, ResolvedOnTheWay DEF WayInv
<1>7. CASE Way!Ask
  <2>1. stage # "read" /\ stage' # "read" /\ page' = page
    BY <1>7 DEF Way!Ask
  <2>2. link \in Links /\ page \in {link, Rewritten}
        /\ (settings.rewrite /\ ~link.path.escaped => page = Rewritten)
    BY <2>1 DEF WayInv
  <2>3. CASE UNCHANGED <<stored, fetched, extracted>>
    BY <1>1, <1>2, <1>3, <2>1, <2>2, <2>3 DEF WayInv
  <2>4. ASSUME NEW outcome \in Way!Outcomes(Way!Decoded(page)),
               Way!Resolved(Way!Decoded(page), outcome)
        PROVE  WayInv'
    <3>1. Way!Decoded(page) \in OnTheWay
      BY <2>2 DEF OnTheWay
    <3>2. ASSUME ~link.path.escaped PROVE Way!Decoded(Rewritten) = Rewritten
      BY <2>2, <3>2, RewrittenOnce DEF Way!Decoded, Way!IsUrl
    <3>3. settings.rewrite /\ ~link.path.escaped => Way!Decoded(page) = Rewritten
      BY <2>2, <3>2
    <3>4. QED
      BY <1>1, <1>2, <1>3, <2>1, <2>2, <2>4, <3>1, <3>3, ResolvedOnTheWay DEF WayInv
  <2>5. QED
    BY <1>7, <2>3, <2>4 DEF Way!Ask
<1>8. QED
  BY <1>5, <1>6, <1>7 DEF Way!Next

LEMMA WayInit == Way!Init => WayInv
BY DEF Way!Init, WayInv

LEMMA WayHolds == Spec => [](part = "link" => WayInv)
<1> DEFINE Inv == part = "link" => WayInv
<1>1. Init => Inv
  BY WayInit DEF Init
<1>2. Inv /\ [Next]_vars => Inv'
  <2> SUFFICES ASSUME WayInv, [Next]_vars, part = "link", part' = "link" PROVE WayInv'
    BY DEF Next, vars, ReadWheel, FollowLink, ConvertEntry, NegotiateFormat, AnswerListing
  <2>1. CASE Next
    BY <2>1, WayStep DEF Next, ReadWheel, FollowLink, ConvertEntry, NegotiateFormat, AnswerListing
  <2>2. CASE UNCHANGED vars
    <3>1. UNCHANGED <<link, stage, wayVars>>
      BY <2>2 DEF vars
    <3>2. Rewritten' = Rewritten /\ OnTheWay' = OnTheWay
      BY <3>1 DEF wayVars, OnTheWay, Rewritten, Way!Decoded, Way!RewriteFileUrl, Way!Resolve,
         Way!HostAllowed, Way!ArtifactHosts, Way!AuthorityOf
    <3>3. \A w : Way!ArtifactUpstreamUrl(w)' = Way!ArtifactUpstreamUrl(w)
      BY <3>1 DEF wayVars, Way!ArtifactUpstreamUrl, Way!HostAllowed, Way!ArtifactHosts,
         Way!SchemeFor, Way!AuthorityOf
    <3>4. QED
      BY <3>1, <3>2, <3>3 DEF wayVars, WayInv
  <2>3. QED
    BY <2>1, <2>2
<1>3. QED
  BY <1>1, <1>2, PTL DEF Spec

(* However upstream writes a link and the deployment rewrites it: what is   *)
(* fetched for it is the file it links to.                                  *)
THEOREM NothingElse == Spec => []FetchedIsLinked
<1>1. (part = "link" => WayInv) => FetchedIsLinked
  BY NothingElseIsFetched DEF FetchedIsLinked
<1>2. QED
  BY <1>1, WayHolds, PTL

(* Where links are rewritten as pages come in, and are written as they are  *)
(* decoded, a wheel is read for its metadata at most once.                  *)
THEOREM ReadOnce == Spec => []StoredIsServed
<1>1. (part = "link" => WayInv) => StoredIsServed
  BY DEF WayInv, StoredIsServed, Way!StoredIsServed
<1>2. QED
  BY <1>1, WayHolds, PTL
------------------------------------------------------------------------------
(* Conversions *)

LEMMA LeastIsThere ==
    ASSUME NEW n \in Nat, NEW I \in SUBSET (1..n), I # {}
    PROVE  Page!Min(I) \in I /\ \A i \in I : Page!Min(I) <= i
<1> DEFINE below == {1..i : i \in I}
<1>1. below \subseteq FiniteSubsetsOf(Nat) /\ below # {}
  <2>1. \A i \in I : 1..i \subseteq Nat /\ IsFiniteSet(1..i)
    BY FS_Interval
  <2>2. QED
    BY <2>1 DEF FiniteSubsetsOf
<1>2. PICK b \in below : \A c \in below : ~(<<c, b>> \in StrictSubsetOrdering(Nat))
  BY <1>1, WFMin, FS_StrictSubsetOrderingWellFounded
<1>3. PICK m \in I : b = 1..m
  OBVIOUS
<1>4. ASSUME NEW i \in I, i < m PROVE FALSE
  <2>1. 1..i \in below /\ 1..i \subseteq 1..m /\ m \in 1..m /\ m \notin 1..i
    BY <1>4
  <2>2. 1..i \in SUBSET Nat /\ 1..m \in SUBSET Nat
    OBVIOUS
  <2>3. <<1..i, b>> \in StrictSubsetOrdering(Nat)
    BY <1>3, <2>1, <2>2 DEF StrictSubsetOrdering
  <2>4. QED
    BY <1>2, <2>1, <2>3
<1>5. \A i \in I : m <= i
  BY <1>4
<1>6. QED
  BY <1>5 DEF Page!Min

(* A mapping is rendered as the first of its algorithms that is listed.     *)
NamesListed(hashes) == \E i \in 1..Len(HtmlAlgorithms) : Page!Contains(hashes, HtmlAlgorithms[i])

LEMMA FirstListed ==
    ASSUME NEW v, v.kind = "hashes", NamesListed(v.hashes)
    PROVE  \E i \in 1..Len(HtmlAlgorithms) :
                /\ Page!HtmlValue(v) = Page!Mapping(<<HtmlAlgorithms[i]>>)
                /\ Page!Contains(v.hashes, HtmlAlgorithms[i])
                /\ Page!Contains(v.hashes, "sha256") => HtmlAlgorithms[i] = "sha256"
<1> DEFINE I == {i \in 1..Len(HtmlAlgorithms) : Page!Contains(v.hashes, HtmlAlgorithms[i])}
           first == Page!Min(I)
<1>1. Len(HtmlAlgorithms) \in Nat \ {0} /\ HtmlAlgorithms[1] = "sha256"
  BY PageData DEF Page!DataAssumption
<1>2. I \in SUBSET (1..Len(HtmlAlgorithms)) /\ I # {}
  BY DEF NamesListed
<1>3. first \in I /\ \A i \in I : first <= i
  BY <1>1, <1>2, LeastIsThere
<1>4. first # 0
  BY <1>1, <1>3
<1>5. Page!HtmlValue(v) = Page!Mapping(<<HtmlAlgorithms[first]>>)
  BY <1>2, <1>4 DEF Page!HtmlValue, Page!SelectInSeq
<1>6. ASSUME Page!Contains(v.hashes, "sha256") PROVE first = 1
  <2>1. 1 \in I
    BY <1>1, <1>6
  <2>2. QED
    BY <1>1, <1>3, <2>1
<1>7. QED
  BY <1>1, <1>3, <1>5, <1>6

(* The values and entries that occur, whatever mappings upstream sends; and *)
(* values of which HTML can show an algorithm.                              *)
IsValue(v) == v \in Page!Plain \/ v = Page!Mapping(v.hashes)
Legible(v) == v.kind = "hashes" => NamesListed(v.hashes)

IsEntry(e) ==
    /\ e = [format |-> e.format, yanked |-> e.yanked, python |-> e.python, hashes |-> e.hashes,
            core |-> e.core, dist |-> e.dist]
    /\ e.format \in Page!Formats
    /\ e.yanked \in {"absent", "true", "false", "", "reason"}
    /\ e.format = "html" => e.yanked # "false"
    /\ e.python \in {"absent", "", "spec"}
    /\ IsValue(e.core) /\ IsValue(e.dist)

Renderable == \A o \in Offered : NamesListed(o)

PageInv ==
    /\ IsEntry(entry) /\ entry.format = format
    /\ Renderable => Legible(entry.core) /\ Legible(entry.dist)
    /\ Page!OfferedIsProxied

LEMMA ValuesDiffer ==
    /\ \A v \in Page!Plain : v.kind # "hashes" /\ v.hashes = <<>> /\ IsValue(v) /\ Legible(v)
    /\ \A v : IsValue(v) => (v = Page!Absent <=> v.kind = "absent")
BY DEF IsValue, Legible, Page!Plain, Page!Value, Page!Mapping, Page!Absent

LEMMA HtmlKeepsValues ==
    ASSUME NEW v, IsValue(v), NEW w, w = Page!HtmlValue(v)
    PROVE  /\ IsValue(w)
           /\ w = Page!Absent \/ w.kind = v.kind
           /\ Legible(v) =>
                /\ Legible(w) /\ w.kind = v.kind
                /\ Page!Contains(w.hashes, "sha256") <=> Page!Contains(v.hashes, "sha256")
<1>1. CASE v.kind # "hashes"
  BY <1>1 DEF Page!HtmlValue, Legible
<1>2. CASE v.kind = "hashes"
  <2>1. w = Page!Absent \/ \E i : w = Page!Mapping(<<HtmlAlgorithms[i]>>)
    BY <1>2 DEF Page!HtmlValue
  <2>2. Page!Absent \in Page!Plain
    BY DEF Page!Absent, Page!Plain
  <2>3. IsValue(w) /\ (w = Page!Absent \/ w.kind = v.kind)
    BY <1>2, <2>1, <2>2, ValuesDiffer DEF IsValue, Page!Mapping
  <2>4. ASSUME Legible(v)
        PROVE  /\ Legible(w) /\ w.kind = v.kind
               /\ Page!Contains(w.hashes, "sha256") <=> Page!Contains(v.hashes, "sha256")
    <3>1. PICK i \in 1..Len(HtmlAlgorithms) :
            /\ w = Page!Mapping(<<HtmlAlgorithms[i]>>)
            /\ Page!Contains(v.hashes, HtmlAlgorithms[i])
            /\ Page!Contains(v.hashes, "sha256") => HtmlAlgorithms[i] = "sha256"
      BY <1>2, <2>4, FirstListed DEF Legible
    <3>2. \A a : Page!Contains(w.hashes, a) <=> a = HtmlAlgorithms[i]
      BY <3>1 DEF Page!Contains, Page!Mapping
    <3>3. QED
      BY <1>2, <3>1, <3>2 DEF Legible, NamesListed, Page!Mapping
  <2>5. QED
    BY <2>3, <2>4
<1>3. QED
  BY <1>1, <1>2

LEMMA ParseKeeps ==
    ASSUME NEW e, IsEntry(e), NEW f, f = Page!Parse(e)
    PROVE  /\ f = [format |-> e.format, yanked |-> f.yanked, python |-> e.python, hashes |-> f.hashes,
                   core |-> e.core, dist |-> e.dist]
           /\ f.yanked = IF e.format = "html" /\ e.yanked = "" THEN "true" ELSE e.yanked
           /\ "sha256" \in f.hashes <=> "sha256" \in e.hashes
BY PageData DEF Page!DataAssumption, Page!Parse, Page!ParseHtml, Page!ParseJson, IsEntry

(* Of the values of a file HTML shows the one an installer takes.           *)
LEMMA HtmlKeepsOffer ==
    ASSUME NEW e, IsEntry(e), NEW m, m = Page!MetadataOf(e)
    PROVE  /\ m = [core |-> m.core, dist |-> m.dist] /\ IsValue(m.core) /\ IsValue(m.dist)
           /\ Page!Offer(m).kind \in {"absent", "false"} \/ Page!Offer(m).kind \in {e.core.kind, e.dist.kind}
           /\ Legible(e.core) /\ Legible(e.dist) =>
                /\ Legible(m.core) /\ Legible(m.dist)
                /\ \/ Page!Offer(m).kind = Page!Offer(e).kind
                   \/ Page!Offer(m).kind = "false" /\ Page!Offer(e).kind = "absent"
                /\ Page!Contains(Page!Offer(m).hashes, "sha256")
                        <=> Page!Contains(Page!Offer(e).hashes, "sha256")
<1> DEFINE core == Page!HtmlValue(e.core)
           dist == Page!HtmlValue(e.dist)
<1>1. /\ IsValue(e.core) /\ IsValue(e.dist)
  BY DEF IsEntry
<1>2. /\ IsValue(core) /\ IsValue(dist)
      /\ core = Page!Absent \/ core.kind = e.core.kind
      /\ dist = Page!Absent \/ dist.kind = e.dist.kind
      /\ Legible(e.core) => /\ Legible(core) /\ core.kind = e.core.kind
                            /\ Page!Contains(core.hashes, "sha256") <=> Page!Contains(e.core.hashes, "sha256")
      /\ Legible(e.dist) => /\ Legible(dist) /\ dist.kind = e.dist.kind
                            /\ Page!Contains(dist.hashes, "sha256") <=> Page!Contains(e.dist.hashes, "sha256")
  BY <1>1, HtmlKeepsValues
<1>3. /\ Page!Absent.kind = "absent" /\ Page!Value("false").kind = "false"
      /\ IsValue(Page!Absent) /\ IsValue(Page!Value("false"))
      /\ Legible(Page!Absent) /\ Legible(Page!Value("false"))
      /\ ~Page!Contains(Page!Absent.hashes, "sha256")
      /\ ~Page!Contains(Page!Value("false").hashes, "sha256")
  BY DEF Page!Absent, Page!Value, Page!Plain, IsValue, Legible, Page!Contains
<1>4. \A v : IsValue(v) => (v = Page!Absent <=> v.kind = "absent")
  BY ValuesDiffer
<1>5. m = IF core # Page!Absent THEN [core |-> core, dist |-> Page!Absent]
          ELSE IF dist # Page!Absent THEN [core |-> Page!Absent, dist |-> dist]
          ELSE IF e.core = Page!Absent /\ e.dist = Page!Absent
          THEN [core |-> Page!Value("false"), dist |-> Page!Absent]
          ELSE [core |-> Page!Absent, dist |-> Page!Absent]
  BY DEF Page!MetadataOf
<1> HIDE DEF core, dist
<1>6. CASE core # Page!Absent
  BY <1>1, <1>2, <1>3, <1>4, <1>5, <1>6 DEF Page!Offer
<1>7. CASE core = Page!Absent /\ dist # Page!Absent
  BY <1>1, <1>2, <1>3, <1>4, <1>5, <1>7 DEF Page!Offer
<1>8. CASE core = Page!Absent /\ dist = Page!Absent /\ e.core = Page!Absent /\ e.dist = Page!Absent
  BY <1>1, <1>2, <1>3, <1>4, <1>5, <1>8 DEF Page!Offer
<1>9. CASE core = Page!Absent /\ dist = Page!Absent /\ ~(e.core = Page!Absent /\ e.dist = Page!Absent)
  BY <1>1, <1>2, <1>3, <1>4, <1>5, <1>9 DEF Page!Offer
<1>10. QED
  BY <1>6, <1>7, <1>8, <1>9

LEMMA SameMeaning ==
    ASSUME NEW d, NEW e,
           Page!Yanked(d) = Page!Yanked(e),
           (IF d.python = "" THEN "absent" ELSE d.python) = (IF e.python = "" THEN "absent" ELSE e.python),
           ("sha256" \in d.hashes) = ("sha256" \in e.hashes),
           Page!Offers(d) = Page!Offers(e),
           Page!Contains(Page!Offer(d).hashes, "sha256") = Page!Contains(Page!Offer(e).hashes, "sha256"),
           (Page!Offer(d).kind = "hashes") = (Page!Offer(e).kind = "hashes")
    PROVE  Page!Meaning(d) = Page!Meaning(e)
BY Zenon DEF Page!Meaning

(* The steps of a conversion: what is parsed, and what is rendered of it.   *)
LEMMA RenderKeeps ==
    ASSUME NEW e, IsEntry(e), NEW f, f = Page!Parse(e), NEW to, to = Page!Opposite(e.format),
           NEW d, d = Page!Render(f, to)
    PROVE  /\ IsEntry(d) /\ d.format = to
           /\ Page!Offers(d) => Page!FileAdvertises(f)
           /\ Legible(e.core) /\ Legible(e.dist) =>
                Legible(d.core) /\ Legible(d.dist) /\ Page!Meaning(d) = Page!Meaning(e)
<1>1. PICK y, h : y = f.yanked /\ h = f.hashes
  OBVIOUS
<1>2. f = [format |-> e.format, yanked |-> y, python |-> e.python, hashes |-> h,
           core |-> e.core, dist |-> e.dist]
  BY <1>1, ParseKeeps
<1>3. y = IF e.format = "html" /\ e.yanked = "" THEN "true" ELSE e.yanked
  BY <1>1, ParseKeeps
<1>4. ("sha256" \in h) = ("sha256" \in e.hashes)
  <2>1. "sha256" \in f.hashes <=> "sha256" \in e.hashes
    BY ParseKeeps
  <2>2. QED
    BY <1>1, <2>1
<1>5. f.format = e.format /\ f.yanked = y /\ f.python = e.python /\ f.hashes = h
      /\ f.core = e.core /\ f.dist = e.dist
  BY <1>2
<1>6. /\ e.format \in Page!Formats /\ IsValue(e.core) /\ IsValue(e.dist)
      /\ e.yanked \in {"absent", "true", "false", "", "reason"}
      /\ e.format = "html" => e.yanked # "false"
      /\ e.python \in {"absent", "", "spec"}
  BY DEF IsEntry
<1>7. /\ IsValue(Page!Value("false")) /\ Legible(Page!Value("false"))
      /\ Page!Value("false") # Page!Absent
      /\ Page!Value("false").kind = "false" /\ Page!Absent.kind = "absent"
      /\ Page!Value("false").hashes = <<>> /\ Page!Absent.hashes = <<>>
  BY DEF Page!Value, Page!Absent, IsValue, Page!Plain, Legible
<1>8. CASE to = "html"
  <2> DEFINE m == Page!MetadataOf(f)
  <2>1. e.format = "json" /\ f = e
    BY <1>6, <1>8 DEF Page!Opposite, Page!Formats, Page!Parse, Page!ParseJson
  <2>2. /\ m = [core |-> m.core, dist |-> m.dist] /\ IsValue(m.core) /\ IsValue(m.dist)
        /\ Page!Offer(m).kind \in {"absent", "false"} \/ Page!Offer(m).kind \in {e.core.kind, e.dist.kind}
        /\ Legible(e.core) /\ Legible(e.dist) =>
              /\ Legible(m.core) /\ Legible(m.dist)
              /\ \/ Page!Offer(m).kind = Page!Offer(e).kind
                 \/ Page!Offer(m).kind = "false" /\ Page!Offer(e).kind = "absent"
              /\ Page!Contains(Page!Offer(m).hashes, "sha256")
                      <=> Page!Contains(Page!Offer(e).hashes, "sha256")
    BY <2>1, HtmlKeepsOffer
  <2> DEFINE yanked == IF y = "true" THEN ""
                       ELSE IF y \in {"false", ""} THEN "absent" ELSE y
             python == IF e.python = "" THEN "absent" ELSE e.python
  <2>3. /\ d = [format |-> d.format, yanked |-> d.yanked, python |-> d.python, hashes |-> d.hashes,
               core |-> d.core, dist |-> d.dist]
        /\ d.format = "html" /\ d.yanked = yanked /\ d.python = python /\ d.hashes = h
        /\ d.core = m.core /\ d.dist = m.dist
    <3>1. d = [f EXCEPT !.format = "html", !.yanked = yanked, !.python = python,
                       !.core = m.core, !.dist = m.dist]
      BY <1>5, <1>8 DEF Page!Render, Page!RenderHtml
    <3> HIDE DEF m, yanked, python
    <3>2. d = [format |-> d.format, yanked |-> d.yanked, python |-> d.python, hashes |-> d.hashes,
               core |-> d.core, dist |-> d.dist]
      BY <1>2, <3>1
    <3>3. QED
      BY <1>2, <1>5, <3>1, <3>2
  <2>4. yanked \in {"absent", "", "reason"} /\ python \in {"absent", "spec"}
    BY <1>3, <1>6
  <2>5. Page!Offer(d) = Page!Offer(m)
    BY <2>3 DEF Page!Offer
  <2>6. IsEntry(d) /\ d.format = to
    BY <1>8, <2>2, <2>3, <2>4 DEF IsEntry, Page!Formats
  <2>7. Page!Offers(d) => Page!FileAdvertises(f)
    BY <1>5, <2>2, <2>5 DEF Page!Offers, Page!FileAdvertises, Page!ValueAdvertised
  <2>8. ASSUME Legible(e.core) /\ Legible(e.dist)
        PROVE  Legible(d.core) /\ Legible(d.dist) /\ Page!Meaning(d) = Page!Meaning(e)
    <3>1. Page!Yanked(d) = Page!Yanked(e)
      BY <1>3, <1>6, <2>1, <2>3 DEF Page!Yanked
    <3>2. Page!Offers(d) = Page!Offers(e) /\ (Page!Offer(d).kind = "hashes") = (Page!Offer(e).kind = "hashes")
      BY <2>2, <2>5, <2>8 DEF Page!Offers
    <3>3. Page!Contains(Page!Offer(d).hashes, "sha256") = Page!Contains(Page!Offer(e).hashes, "sha256")
      BY <2>2, <2>5, <2>8 DEF Page!Contains
    <3>4. (IF d.python = "" THEN "absent" ELSE d.python) = (IF e.python = "" THEN "absent" ELSE e.python)
      BY <2>3
    <3>5. ("sha256" \in d.hashes) = ("sha256" \in e.hashes)
      BY <1>4, <2>3
    <3>6. QED
      BY <2>2, <2>3, <2>8, <3>1, <3>2, <3>3, <3>4, <3>5, SameMeaning
  <2>9. QED
    BY <2>6, <2>7, <2>8
<1>9. CASE to = "json"
  <2>1. e.format = "html"
    BY <1>6, <1>9 DEF Page!Opposite, Page!Formats
  <2> DEFINE core == IF e.core = Page!Absent /\ e.dist = Page!Absent THEN Page!Value("false") ELSE e.core
  <2>2. /\ d = [format |-> d.format, yanked |-> d.yanked, python |-> d.python, hashes |-> d.hashes,
               core |-> d.core, dist |-> d.dist]
        /\ d.format = "json" /\ d.yanked = y /\ d.python = e.python /\ d.hashes = h
        /\ d.core = core /\ d.dist = e.dist
    <3>1. d = [f EXCEPT !.format = "json", !.core = core]
      BY <1>5, <1>9 DEF Page!Render, Page!RenderJson
    <3> HIDE DEF core
    <3>2. d = [format |-> d.format, yanked |-> d.yanked, python |-> d.python, hashes |-> d.hashes,
               core |-> d.core, dist |-> d.dist]
      BY <1>2, <3>1
    <3>3. QED
      BY <1>2, <1>5, <3>1, <3>2
  <2>3. IsEntry(d) /\ d.format = to
    BY <1>3, <1>6, <1>7, <1>9, <2>2 DEF IsEntry, Page!Formats
  <2>4. \/ Page!Offer(d) = Page!Offer(e)
        \/ Page!Offer(d) = Page!Value("false") /\ Page!Offer(e) = Page!Absent
    BY <1>7, <2>2 DEF Page!Offer
  <2>5. Page!Offers(d) => Page!FileAdvertises(f)
    BY <1>5, <1>7, <2>4 DEF Page!Offers, Page!FileAdvertises, Page!ValueAdvertised, Page!Offer
  <2>6. Page!Meaning(d) = Page!Meaning(e)
    <3>1. Page!Yanked(d) = Page!Yanked(e)
      BY <1>3, <1>6, <2>1, <2>2 DEF Page!Yanked
    <3>2. Page!Offers(d) = Page!Offers(e) /\ (Page!Offer(d).kind = "hashes") = (Page!Offer(e).kind = "hashes")
      BY <1>7, <2>4 DEF Page!Offers
    <3>3. Page!Contains(Page!Offer(d).hashes, "sha256") = Page!Contains(Page!Offer(e).hashes, "sha256")
      BY <1>7, <2>4 DEF Page!Contains
    <3>4. (IF d.python = "" THEN "absent" ELSE d.python) = (IF e.python = "" THEN "absent" ELSE e.python)
      BY <2>2
    <3>5. ("sha256" \in d.hashes) = ("sha256" \in e.hashes)
      BY <1>4, <2>2
    <3>6. QED
      BY <3>1, <3>2, <3>3, <3>4, <3>5, SameMeaning
  <2>7. QED
    BY <1>7, <2>2, <2>3, <2>5, <2>6
<1>10. QED
  BY <1>6, <1>8, <1>9 DEF Page!Opposite, Page!Formats

LEMMA PageInit == Page!Init => PageInv
<1> SUFFICES ASSUME Page!Init PROVE PageInv
  OBVIOUS
<1>1. PICK f \in Page!Formats :
        entry \in [format : {f}, yanked : Page!YankedIn(f), python : {"absent", "", "spec"},
                   hashes : SUBSET (Known \cup {"other"}), core : Page!ValuesIn(f), dist : Page!ValuesIn(f)]
  BY DEF Page!Init, Page!Pages
<1>2. \A v \in Page!ValuesIn(f) : IsValue(v) /\ (Renderable => Legible(v))
  BY DEF Page!ValuesIn, Page!Plain, Page!Value, Page!Mapping, IsValue, Legible, Renderable
<1>3. IsEntry(entry) /\ (Renderable => Legible(entry.core) /\ Legible(entry.dist))
  BY <1>1, <1>2 DEF IsEntry, Page!YankedIn
<1>4. QED
  BY <1>3 DEF Page!Init, PageInv, Page!OfferedIsProxied

LEMMA PageStep ==
    ASSUME PageInv, Page!Next
    PROVE  PageInv' /\ (Renderable /\ format' # format => Page!Meaning(entry') = Page!Meaning(entry))
<1>1. CASE Page!Passthrough
  BY <1>1 DEF Page!Passthrough, PageInv, Page!OfferedIsProxied, Page!Linked, Page!AnchorAdvertises,
     Page!FileAdvertises, Page!ValueAdvertised, Page!Offers, Page!Offer
<1>2. CASE Page!Convert
  <2>1. PICK e, f, d : e = entry /\ f = Page!Parse(entry) /\ d = Page!Render(Page!Parse(entry), format')
    OBVIOUS
  <2>2. IsEntry(e) /\ e.format = format /\ format' = Page!Opposite(e.format) /\ entry' = d
        /\ link' = Page!Linked(Page!FileAdvertises(f))
    BY <1>2, <2>1 DEF PageInv, Page!Convert
  <2>3. /\ IsEntry(d) /\ d.format = format'
        /\ Page!Offers(d) => Page!FileAdvertises(f)
        /\ Legible(e.core) /\ Legible(e.dist) =>
              Legible(d.core) /\ Legible(d.dist) /\ Page!Meaning(d) = Page!Meaning(e)
    BY <2>1, <2>2, RenderKeeps
  <2>4. Page!OfferedIsProxied'
    BY <2>2, <2>3 DEF Page!OfferedIsProxied, Page!Linked, Page!Offers, Page!Offer
  <2>5. QED
    BY <2>1, <2>2, <2>3, <2>4 DEF PageInv
<1>3. CASE Page!Enrich
  <2>1. CASE UNCHANGED entry
    BY <1>3, <2>1 DEF Page!Enrich, PageInv, Page!OfferedIsProxied, Page!Offers, Page!Offer
  <2>2. CASE ~UNCHANGED entry
    <3>1. PICK v \in {Page!Value("true"), Page!Mapping(<<"sha256">>)} : entry' = [entry EXCEPT !.core = v]
      BY <1>3, <2>2 DEF Page!Enrich
    <3>2. IsValue(v)
      BY DEF IsValue, Page!Plain, Page!Value, Page!Mapping
    <3>3. Legible(v)
      <4>1. Page!Contains(<<"sha256">>, HtmlAlgorithms[1]) /\ 1 \in 1..Len(HtmlAlgorithms)
        BY PageData DEF Page!DataAssumption, Page!Contains
      <4>2. QED
        BY <4>1 DEF Legible, NamesListed, Page!Value, Page!Mapping
    <3>4. IsEntry(entry)' /\ entry'.core = v /\ entry'.dist = entry.dist /\ entry'.format = entry.format
      BY <3>1, <3>2 DEF PageInv, IsEntry
    <3>5. QED
      BY <1>3, <2>2, <3>3, <3>4 DEF Page!Enrich, PageInv, Page!OfferedIsProxied
  <2>3. QED
    BY <2>1, <2>2
<1>4. QED
  BY <1>1, <1>2, <1>3 DEF Page!Next

LEMMA PageHolds == Spec => [](part = "entry" => PageInv)
<1> DEFINE Inv == part = "entry" => PageInv
<1>1. Init => Inv
  BY PageInit DEF Init
<1>2. Inv /\ [Next]_vars => Inv'
  <2> SUFFICES ASSUME PageInv, [Next]_vars, part = "entry", part' = "entry" PROVE PageInv'
    BY DEF Next, vars, ReadWheel, FollowLink, ConvertEntry, NegotiateFormat, AnswerListing
  <2>1. CASE Next
    BY <2>1, PageStep DEF Next, ReadWheel, FollowLink, ConvertEntry, NegotiateFormat, AnswerListing
  <2>2. CASE UNCHANGED vars
    BY <2>2 DEF vars, pageVars, PageInv, Page!OfferedIsProxied, Page!Offers, Page!Offer
  <2>3. QED
    BY <2>1, <2>2
<1>3. QED
  BY <1>1, <1>2, PTL DEF Spec

(* Whatever upstream offers metadata with, and however a page is converted  *)
(* and enriched: what it offers metadata for is linked through the proxy.   *)
THEOREM OfferedThroughProxy == Spec => []OfferedIsProxied
<1>1. (part = "entry" => PageInv) => OfferedIsProxied
  BY DEF PageInv, OfferedIsProxied
<1>2. QED
  BY <1>1, PageHolds, PTL

(* Conversions keep what an entry says to an installer, if every mapping    *)
(* has an algorithm that is looked for.                                     *)
THEOREM SaysTheSame == ASSUME Renderable PROVE Spec => MeaningIsKept
<1>1. (part = "entry" => PageInv) /\ [Next]_vars =>
        [part = "entry" /\ format' # format => Page!Meaning(entry') = Page!Meaning(entry)]_vars
  BY PageStep DEF Next, ReadWheel, FollowLink, ConvertEntry, NegotiateFormat, AnswerListing
<1>2. QED
  BY <1>1, PageHolds, PTL DEF Spec, MeaningIsKept
------------------------------------------------------------------------------
(* WheelReader *)

LEMMA ReaderCounts == ASSUME NEW S PROVE Reader!Cardinality(S) = Cardinality(S)
BY DEF Reader!Cardinality, Cardinality

(* What has been read of an archive that was there all along.               *)
EndRead(o) ==
    /\ total = o.size /\ end = o.end /\ o.size <= Limits.archive
    /\ Reader!EndIsFound(o, Reader!SuffixStart(o.size)) /\ Reader!EndIsGood(end)
DirectoryRead(o) ==
    Reader!DirectoryIsGood(o, end) /\ member = Reader!Entry(o) /\ Reader!EntryIsGood(member)
HeaderRead(o) ==
    /\ member.at \in DOMAIN o.headers /\ Reader!Agrees(o.headers[member.at], member)
    /\ rest = o.headers[member.at].rest
NamesRead(o) == Reader!Named(o) /\ rest > 0
DataRead(o) ==
    /\ Reader!Inflates(o) /\ Reader!ChecksumFits(o.texts[Reader!DataAt].text)
    /\ result = o.texts[Reader!DataAt].text
    /\ Reader!DataAt + member.csize <= total

ReadSoFar(o) ==
    /\ stage \in {"directory", "header", "names", "data", "done"} => EndRead(o)
    /\ stage \in {"header", "names", "data", "done"} => DirectoryRead(o)
    /\ stage \in {"names", "data", "done"} => HeaderRead(o)
    /\ stage \in {"data", "done"} => NamesRead(o)
    /\ stage = "done" => DataRead(o)

(* Where archives replace each other the entry is of one of them, and the   *)
(* result has the checksum of the entry.                                    *)
Entries ==
    stage \in {"header", "names", "data", "done"} =>
        \E o \in seen : Cardinality(Reader!Listed(o)) = 1 /\ member = Reader!Entry(o)
Results ==
    /\ result # None <=> stage = "done"
    /\ stage = "done" => result \in DOMAIN Crc /\ Crc[result] = member.crc

ReaderInv ==
    /\ object \in seen /\ seen \subseteq Archives /\ full \in seen \cup {None}
    /\ faithful \in BOOLEAN
    /\ Entries /\ Results
    /\ \A o \in seen : seen = {o} =>
        ReadSoFar(o) /\ (stage = "failed" /\ faithful => o \notin Reader!Wheels)

(* What is under the URL is an archive, and a wheel has one METADATA.       *)
LEMMA OneListed ==
    ASSUME NEW o \in Archives, Cardinality(Reader!Listed(o)) = 1
    PROVE  \E i \in 1..Len(o.members) : Reader!Listed(o) = {i} /\ Reader!Entry(o) = o.members[i]
<1>1. IsFiniteSet(Reader!Listed(o))
  <2>1. Len(o.members) \in Nat
    BY ReaderData DEF Reader!DataAssumption, Reader!IsArchive
  <2>2. IsFiniteSet(1..Len(o.members)) /\ Reader!Listed(o) \subseteq 1..Len(o.members)
    BY <2>1, FS_Interval DEF Reader!Listed
  <2>3. QED
    BY <2>2, FS_Subset
<1>2. PICK i : Reader!Listed(o) = {i}
  BY <1>1, FS_Singleton
<1>3. i \in 1..Len(o.members) /\ Reader!Entry(o) = o.members[i]
  BY <1>2 DEF Reader!Listed, Reader!Entry
<1>4. QED
  BY <1>2, <1>3

LEMMA WheelIs ==
    ASSUME NEW o \in Archives, o \in Reader!Wheels
    PROVE  \E i \in 1..Len(o.members) :
                /\ Reader!IsWheelWith(o, i, TextOf[o]) /\ TextOf[o] \in DOMAIN Crc
                /\ Reader!Listed(o) = {i} /\ Reader!Entry(o) = o.members[i]
                /\ Cardinality(Reader!Listed(o)) = 1
<1>1. PICK i \in 1..Len(o.members) : Reader!IsWheelWith(o, i, TextOf[o]) /\ TextOf[o] \in DOMAIN Crc
  BY ReaderData DEF Reader!DataAssumption
<1>2. \A j \in 1..Len(o.members) : o.members[j].metadata <=> j = i
  BY <1>1 DEF Reader!IsWheelWith
<1>3. Reader!Listed(o) = {i} /\ Reader!Entry(o) = o.members[i]
  BY <1>2 DEF Reader!Listed, Reader!Entry
<1>4. Cardinality(Reader!Listed(o)) = 1
  BY <1>3, FS_Singleton
<1>5. QED
  BY <1>1, <1>3, <1>4

(* An archive that has been read to the end is a wheel.                     *)
LEMMA ReadIsWheel ==
    ASSUME NEW o \in Archives, EndRead(o), DirectoryRead(o), HeaderRead(o), NamesRead(o), DataRead(o),
           result \in DOMAIN Crc
    PROVE  o \in Reader!Wheels /\ result = TextOf[o]
<1>1. PICK i \in 1..Len(o.members) : Reader!Listed(o) = {i} /\ Reader!Entry(o) = o.members[i]
  BY OneListed, ReaderCounts DEF DirectoryRead, Reader!DirectoryIsGood
<1>2. member = o.members[i]
  BY <1>1 DEF DirectoryRead
<1>3. /\ o.size \in Nat /\ o.end.at \in Nat /\ o.end.comment \in Nat
      /\ EndSize \in Nat /\ HeaderSize \in Nat /\ Limits.search \in Nat
      /\ \A j \in 1..Len(o.members) : o.members[j].metadata \in BOOLEAN
      /\ \A a \in DOMAIN o.headers : o.headers[a].rest \in Nat
      /\ \A a \in DOMAIN o.texts :
            o.texts[a] = [text |-> o.texts[a].text, csize |-> o.texts[a].csize, method |-> o.texts[a].method]
  BY ReaderData DEF Reader!DataAssumption, Reader!IsArchive
<1>4. o.size <= Limits.archive /\ o.end.at + EndSize + o.end.comment = o.size
      /\ EndSize + o.end.comment <= Limits.search
  BY <1>3 DEF EndRead, Reader!EndIsFound, Reader!SuffixStart
<1>5. /\ ~o.end.spans /\ ~o.end.zip64 /\ o.end.dirAt + o.end.dirSize = o.end.at
      /\ o.end.dirSize \in 1..Limits.directory /\ o.end.entries \in 1..Limits.entries
      /\ Len(o.members) = o.end.entries
  BY DEF EndRead, DirectoryRead, Reader!EndIsGood, Reader!DirectoryIsGood
<1>6. \A j \in 1..Len(o.members) :
        /\ ~o.members[j].zip64 /\ ~o.members[j].otherDisk
        /\ o.members[j].metadata <=> j = i
  BY <1>1, <1>3 DEF DirectoryRead, Reader!DirectoryIsGood, Reader!Listed
<1>7. member.name = Wheel /\ "encrypted" \notin member.flags /\ member.csize \in 1..Limits.text /\ member.usize <= Limits.text
  BY DEF DirectoryRead, Reader!EntryIsGood
<1> DEFINE h == o.headers[member.at]
<1>8. /\ member.at \in DOMAIN o.headers /\ h.name = Wheel /\ h.flags = member.flags /\ ~h.zip64
      /\ h.method = member.method /\ h.rest > 0 /\ rest = h.rest
  BY <1>7 DEF HeaderRead, NamesRead, Reader!Named, Reader!Agrees
<1>9. /\ member.method \in {"stored", "deflated"}
      /\ Reader!DataAt \in DOMAIN o.texts /\ Reader!DataAt + member.csize <= o.size
      /\ o.texts[Reader!DataAt] = [text |-> result, csize |-> member.csize, method |-> member.method]
      /\ member.usize = Size[result] /\ member.crc = Crc[result]
  BY <1>3 DEF DataRead, EndRead, Reader!Inflates, Reader!ChecksumFits
<1>10. Reader!DataAt = member.at + HeaderSize + h.rest
  BY <1>8 DEF Reader!DataAt
<1>11. Reader!IsWheelWith(o, i, result)
  BY <1>2, <1>4, <1>5, <1>6, <1>7, <1>8, <1>9, <1>10 DEF Reader!IsWheelWith
<1>12. QED
  BY <1>11, ReaderData DEF Reader!DataAssumption

(* Where the parts of a wheel are. *)
WheelAt(o, i) ==
    LET m == o.members[i]
        h == o.headers[m.at]
        start == m.at + HeaderSize + h.rest
    IN /\ {m.at, m.csize, h.rest, HeaderSize, o.size} \subseteq Nat
       /\ m.csize > 0 /\ h.rest > 0 /\ HeaderSize > 0 /\ start + m.csize <= o.size
       /\ m.at \in DOMAIN o.headers /\ h.flags = m.flags /\ h.method = m.method
       /\ h.name = m.name /\ ~h.zip64
       /\ start \in DOMAIN o.texts /\ o.texts[start].csize = m.csize /\ o.texts[start].method = m.method
       /\ m.method \in {"stored", "deflated"}
       /\ Size[o.texts[start].text] = m.usize /\ Crc[o.texts[start].text] = m.crc

LEMMA WheelBounds ==
    ASSUME NEW o \in Archives, NEW i \in 1..Len(o.members), Reader!IsWheelWith(o, i, TextOf[o])
    PROVE  WheelAt(o, i)
<1> DEFINE m == o.members[i]
           h == o.headers[m.at]
           start == m.at + HeaderSize + h.rest
<1>1. /\ m.at \in Nat /\ m.csize \in Nat
      /\ m.at \in DOMAIN o.headers => h.rest \in Nat
      /\ HeaderSize \in Nat /\ HeaderSize > 0 /\ o.size \in Nat
  BY ReaderData DEF Reader!DataAssumption, Reader!IsArchive
<1>2. /\ m.name = Wheel /\ "encrypted" \notin m.flags /\ m.method \in {"stored", "deflated"} /\ m.csize \in 1..Limits.text
      /\ m.at \in DOMAIN o.headers /\ h.name = Wheel /\ h.flags = m.flags /\ ~h.zip64
      /\ h.method = m.method /\ h.rest > 0
      /\ start \in DOMAIN o.texts /\ start + m.csize <= o.size
      /\ m.usize = Size[TextOf[o]] /\ m.crc = Crc[TextOf[o]]
  BY DEF Reader!IsWheelWith
<1>3. o.texts[start] = [text |-> TextOf[o], csize |-> m.csize, method |-> m.method]
  BY DEF Reader!IsWheelWith
<1>4. /\ o.texts[start].text = TextOf[o] /\ o.texts[start].csize = m.csize
      /\ o.texts[start].method = m.method
  BY <1>3
<1>5. Limits.text \in Nat
  BY ReaderData DEF Reader!DataAssumption
<1>6. QED
  BY <1>1, <1>2, <1>4, <1>5 DEF WheelAt

(* What _fetch_exact gives comes from what is under the URL, or was there   *)
(* when it came whole; all that was asked for, if the server does as asked. *)
LEMMA FetchedFrom ==
    ASSUME ReaderInv, NEW first, NEW length, NEW a \in Reader!FetchExact(first, length)
    PROVE  /\ a.from \in seen \cup {None} /\ a.honest \in BOOLEAN
           /\ a.from # None => Reader!InBounds(first, length)
<1>1. full \in seen \cup {None} /\ object \in seen
  BY DEF ReaderInv
<1>2. \A kind, allowance : Reader!Honest(kind, allowance) \in BOOLEAN
  BY DEF Reader!Honest
<1>3. CASE ~Reader!InBounds(first, length) \/ full # None
  <2>1. a = [from |-> IF Reader!InBounds(first, length) THEN full ELSE None, honest |-> TRUE]
    BY <1>3 DEF Reader!FetchExact
  <2>2. QED
    BY <1>1, <2>1
<1>4. CASE ~(~Reader!InBounds(first, length) \/ full # None)
  <2> DEFINE last == first + length - 1
  <2>1. PICK b \in Reader!Request(first, last, None) :
            a = [from |-> IF Reader!AsAsked(b.r, first, last) THEN object ELSE None, honest |-> b.honest]
    BY <1>4 DEF Reader!FetchExact
  <2>2. b.honest \in BOOLEAN
    BY <1>2 DEF Reader!Request
  <2>3. QED
    BY <1>1, <1>4, <2>1, <2>2
<1>5. QED
  BY <1>3, <1>4

LEMMA FetchedAll ==
    ASSUME ReaderInv, NEW o \in seen, seen = {o}, EndRead(o),
           NEW first \in Nat, NEW length \in Nat, Reader!InBounds(first, length),
           NEW a \in Reader!FetchExact(first, length), a.honest
    PROVE  a.from = o
<1>1. object = o /\ full \in {o, None} /\ o \in Archives
  BY DEF ReaderInv
<1>2. CASE full # None
  BY <1>1, <1>2 DEF Reader!FetchExact
<1>3. CASE full = None
  <2> DEFINE last == first + length - 1
  <2>1. PICK b \in Reader!Request(first, last, None) :
            a = [from |-> IF Reader!AsAsked(b.r, first, last) THEN object ELSE None, honest |-> b.honest]
    BY <1>3 DEF Reader!FetchExact
  <2>2. PICK kind \in Server : b = [r |-> Reader!Reply(kind, first, last), honest |-> Reader!Honest(kind, None)]
    BY <2>1 DEF Reader!Request
  <2>3. kind = "range"
    BY <2>1, <2>2 DEF Reader!Honest
  <2>4. b.r = [status |-> 206, encoded |-> FALSE, start |-> first, end |-> last,
               total |-> object.size, declared |-> last + 1 - first, bytes |-> last + 1 - first]
    BY <2>2, <2>3 DEF Reader!Reply
  <2>5. o.size \in Nat /\ Limits.archive \in Nat
    BY <1>1, ReaderData DEF Reader!DataAssumption, Reader!IsArchive
  <2>6. total = o.size /\ o.size \in 1..Limits.archive /\ length > 0 /\ first + length <= o.size
    BY <2>5 DEF EndRead, Reader!InBounds
  <2>7. Reader!AsAsked(b.r, first, last)
    BY <1>1, <2>4, <2>5, <2>6 DEF Reader!AsAsked, Reader!Accepted, Reader!HeadersFit, Reader!BodyFits, Reader!Expected
  <2>8. QED
    BY <1>1, <2>1, <2>7
<1>4. QED
  BY <1>2, <1>3

(* A suffix that is accepted is the last bytes of the archive.              *)
LEMMA SuffixIsExact ==
    ASSUME object \in Archives, NEW kind \in Server, NEW first, NEW last, last = object.size - 1,
           NEW r, r = Reader!Reply(kind, first, last),
           Reader!Accepted(r, Limits.search),
           r.start = Reader!SuffixStart(r.total), r.end = r.total - 1
    PROVE  r.total = object.size /\ object.size <= Limits.archive
<1>1. object.size \in Nat /\ Limits.archive \in Nat /\ Limits.search \in Nat /\ kind \in Reader!Kinds
  BY ReaderData DEF Reader!DataAssumption, Reader!IsArchive
<1>2. r.status # 200 /\ Reader!HeadersFit(r, Limits.search) => r.status = 206 /\ r.total \in 1..Limits.archive
  BY DEF Reader!HeadersFit
<1>3. CASE kind \in {"full", "full undeclared"}
  <2>1. r.status = 200 /\ r.total = object.size /\ r.bytes = object.size
    BY <1>3 DEF Reader!Reply
  <2>2. r.bytes \in 1..Reader!Least(Limits.search, Limits.archive)
    BY <2>1 DEF Reader!Accepted, Reader!BodyFits
  <2>3. QED
    BY <1>1, <2>1, <2>2 DEF Reader!Least
<1>4. CASE kind \in {"range", "whole range", "clipped", "truncated", "runs on", "encoded", "refused"}
  <2>1. r.status \in {206, 416} /\ r.total = object.size
    <3>1. CASE kind = "range"
      BY <3>1 DEF Reader!Reply
    <3>2. CASE kind = "whole range"
      BY <3>2 DEF Reader!Reply
    <3>3. CASE kind = "clipped"
      BY <3>3 DEF Reader!Reply
    <3>4. CASE kind = "truncated"
      BY <3>4 DEF Reader!Reply
    <3>5. CASE kind = "runs on"
      BY <3>5 DEF Reader!Reply
    <3>6. CASE kind = "encoded"
      BY <3>6 DEF Reader!Reply
    <3>7. CASE kind = "refused"
      BY <3>7 DEF Reader!Reply
    <3>8. QED
      BY <1>4, <3>1, <3>2, <3>3, <3>4, <3>5, <3>6, <3>7
  <2>2. QED
    BY <1>1, <1>2, <2>1 DEF Reader!Accepted
<1>5. CASE kind = "miscounted"
  <2>1. r.total = object.size + 1 /\ r.end = object.size - 1
    BY <1>5 DEF Reader!Reply
  <2>2. QED
    BY <1>1, <2>1
<1>6. QED
  BY <1>1, <1>3, <1>4, <1>5 DEF Reader!Kinds

(* A wheel answered for as asked passes the first step.                     *)
LEMMA SuffixOfWheel ==
    ASSUME object \in Archives, object \in Reader!Wheels,
           NEW a \in Reader!Request(Reader!SuffixStart(object.size), object.size - 1, Limits.search),
           a.honest
    PROVE  /\ Reader!Accepted(a.r, Limits.search)
           /\ a.r.start = Reader!SuffixStart(a.r.total) /\ a.r.end = a.r.total - 1
           /\ Reader!EndIsFound(object, a.r.start) /\ Reader!EndIsGood(object.end)
<1>1. PICK i \in 1..Len(object.members) : Reader!IsWheelWith(object, i, TextOf[object])
  BY WheelIs
<1>2. /\ object.size \in Nat /\ object.end.at \in Nat /\ object.end.comment \in Nat
      /\ object.end.dirAt \in Nat /\ object.end.dirSize \in Nat /\ Limits.archive \in Nat
      /\ EndSize \in Nat /\ EndSize > 0 /\ Limits.search \in Nat /\ Limits.search # None
  BY ReaderData DEF Reader!DataAssumption, Reader!IsArchive
<1>3. /\ object.size \in 1..Limits.archive
      /\ object.end.at + EndSize + object.end.comment = object.size
      /\ EndSize + object.end.comment <= Limits.search /\ Limits.search >= 1
      /\ Reader!EndIsGood(object.end)
  <2>1. /\ object.size <= Limits.archive
        /\ object.end.at + EndSize + object.end.comment = object.size
        /\ EndSize + object.end.comment <= Limits.search
    BY <1>1 DEF Reader!IsWheelWith
  <2>2. Reader!EndIsGood(object.end)
    BY <1>1 DEF Reader!IsWheelWith, Reader!EndIsGood
  <2>3. QED
    BY <1>2, <2>1, <2>2
<1> DEFINE start == Reader!SuffixStart(object.size)
           last == object.size - 1
<1>4. start \in Nat /\ start <= last /\ object.end.at >= start
      /\ (object.size <= Limits.search => start = 0)
  <2>1. PICK size \in Nat, at \in Nat, least \in Nat, comment \in Nat :
            size = object.size /\ at = object.end.at /\ least = EndSize /\ comment = object.end.comment
    BY <1>2
  <2>2. /\ size > 0 /\ Limits.search > 0 /\ least > 0
        /\ at + least + comment = size /\ least + comment <= Limits.search
    <3>1. size \in 1..Limits.archive /\ Limits.search >= 1 /\ least > 0
      BY <1>2, <1>3, <2>1
    <3>2. at + least + comment = size /\ least + comment <= Limits.search
      BY <1>3, <2>1
    <3>3. QED
      BY <1>2, <3>1, <3>2
  <2>3. start = IF size > Limits.search THEN size - Limits.search ELSE 0
    BY <2>1 DEF Reader!SuffixStart
  <2>4. /\ start \in Nat /\ start <= size - 1 /\ at >= start
        /\ size <= Limits.search => start = 0
    <3> HIDE DEF start
    <3>1. size \in Nat /\ at \in Nat /\ least \in Nat /\ comment \in Nat /\ Limits.search \in Nat
      BY <1>2, <2>1
    <3>2. CASE size > Limits.search
      BY <2>2, <2>3, <3>1, <3>2
    <3>3. CASE size <= Limits.search
      BY <2>2, <2>3, <3>1, <3>3
    <3>4. QED
      BY <3>1, <3>2, <3>3
  <2>5. QED
    BY <2>1, <2>4
<1>5. PICK kind \in Server : a = [r |-> Reader!Reply(kind, start, last), honest |-> Reader!Honest(kind, Limits.search)]
  BY DEF Reader!Request
<1>6. kind = "range" \/ (kind = "full" /\ object.size <= Limits.search)
  BY <1>5 DEF Reader!Honest
<1>7. CASE kind = "range"
  <2>1. a.r = [status |-> 206, encoded |-> FALSE, start |-> start, end |-> last,
               total |-> object.size, declared |-> last + 1 - start, bytes |-> last + 1 - start]
    BY <1>5, <1>7 DEF Reader!Reply
  <2> HIDE DEF start
  <2>2. Reader!Accepted(a.r, Limits.search)
    BY <1>2, <1>3, <1>4, <2>1 DEF Reader!Accepted, Reader!HeadersFit, Reader!BodyFits, Reader!Expected
  <2>3. a.r.start = start /\ a.r.total = object.size /\ a.r.end = object.size - 1
    BY <2>1
  <2>4. QED
    BY <1>3, <1>4, <2>2, <2>3 DEF start, Reader!EndIsFound
<1>8. CASE kind = "full" /\ object.size <= Limits.search
  <2>1. /\ a.r.status = 200 /\ ~a.r.encoded /\ a.r.start = 0 /\ a.r.end = object.size - 1
        /\ a.r.total = object.size /\ a.r.declared = object.size /\ a.r.bytes = object.size
    BY <1>5, <1>8 DEF Reader!Reply
  <2>2. Reader!Accepted(a.r, Limits.search)
    BY <1>2, <1>3, <1>8, <2>1 DEF Reader!Accepted, Reader!HeadersFit, Reader!BodyFits, Reader!Least
  <2>3. QED
    BY <1>3, <1>4, <1>8, <2>1, <2>2 DEF Reader!EndIsFound
<1>9. QED
  BY <1>6, <1>7, <1>8

(* A step that fails, and one that goes on, leave the invariant true.       *)
LEMMA Failing ==
    ASSUME ReaderInv, Reader!Fail, stage \in Reader!Fetches, UNCHANGED <<object, seen>>,
           faithful' \in BOOLEAN,
           faithful' => faithful /\ \A o \in seen : seen = {o} => o \notin Reader!Wheels
    PROVE  ReaderInv'
BY DEF ReaderInv, Entries, Results, ReadSoFar, Reader!Fail, Reader!Fetches, Reader!found

LEMMA SuffixStep == ASSUME ReaderInv, Reader!FetchSuffix PROVE ReaderInv'
<1>1. PICK a \in Reader!Request(Reader!SuffixStart(object.size), object.size - 1, Limits.search) :
        /\ IF /\ Reader!Accepted(a.r, Limits.search)
              /\ a.r.start = Reader!SuffixStart(a.r.total) /\ a.r.end = a.r.total - 1
              /\ Reader!EndIsFound(object, a.r.start) /\ Reader!EndIsGood(object.end)
           THEN /\ total' = a.r.total
                /\ full' = IF a.r.status = 200 THEN object ELSE None
                /\ end' = object.end
                /\ stage' = "directory"
                /\ UNCHANGED <<member, rest, result>>
           ELSE Reader!Fail
        /\ Reader!Remember(a)
  BY DEF Reader!FetchSuffix
<1>2. PICK kind \in Server :
        /\ a.r = Reader!Reply(kind, Reader!SuffixStart(object.size), object.size - 1)
        /\ a.honest = Reader!Honest(kind, Limits.search)
  BY DEF Reader!Request
<1>3. /\ stage = "suffix" /\ UNCHANGED <<object, seen>> /\ faithful' = (faithful /\ a.honest)
      /\ a.honest \in BOOLEAN /\ object \in Archives
  BY <1>1, <1>2 DEF Reader!FetchSuffix, Reader!Remember, Reader!Honest, ReaderInv
<1> DEFINE ok == /\ Reader!Accepted(a.r, Limits.search)
                 /\ a.r.start = Reader!SuffixStart(a.r.total) /\ a.r.end = a.r.total - 1
                 /\ Reader!EndIsFound(object, a.r.start) /\ Reader!EndIsGood(object.end)
<1>4. CASE ok
  <2>1. /\ total' = a.r.total /\ full' \in {object, None} /\ end' = object.end
        /\ stage' = "directory" /\ result' = result
    BY <1>1, <1>4
  <2>2. a.r.total = object.size /\ object.size <= Limits.archive
    <3>1. PICK first, last : first = Reader!SuffixStart(object.size) /\ last = object.size - 1
      OBVIOUS
    <3>2. a.r = Reader!Reply(kind, first, last)
      BY <1>2, <3>1
    <3>3. QED
      BY <1>3, <1>4, <3>1, <3>2, SuffixIsExact
  <2>3. ASSUME NEW o \in seen, seen = {o} PROVE EndRead(o)'
    BY <1>3, <1>4, <2>1, <2>2, <2>3 DEF EndRead, ReaderInv
  <2>4. ASSUME NEW o \in seen, seen = {o} PROVE ReadSoFar(o)'
    BY <2>1, <2>3, <2>4 DEF ReadSoFar
  <2>5. Entries' /\ Results'
    BY <1>3, <2>1 DEF ReaderInv, Entries, Results
  <2>6. QED
    BY <1>3, <2>1, <2>4, <2>5 DEF ReaderInv
<1>5. CASE ~ok
  <2>1. Reader!Fail
    BY <1>1, <1>5
  <2>2. a.honest => \A o \in seen : seen = {o} => o \notin Reader!Wheels
    BY <1>3, <1>5, SuffixOfWheel DEF ReaderInv
  <2>3. QED
    BY <1>3, <2>1, <2>2, Failing DEF Reader!Fetches, ReaderInv
<1>6. QED
  BY <1>4, <1>5

LEMMA DirectoryStep == ASSUME ReaderInv, Reader!FetchDirectory PROVE ReaderInv'
<1>1. PICK a \in Reader!FetchExact(end.dirAt, end.dirSize) :
        /\ IF a.from # None /\ Reader!DirectoryIsGood(a.from, end) /\ Reader!EntryIsGood(Reader!Entry(a.from))
           THEN /\ member' = Reader!Entry(a.from) /\ stage' = "header"
                /\ UNCHANGED <<full, total, end, rest, result>>
           ELSE Reader!Fail
        /\ Reader!Remember(a)
  BY DEF Reader!FetchDirectory
<1>2. /\ stage = "directory" /\ UNCHANGED <<object, seen>> /\ faithful' = (faithful /\ a.honest)
      /\ a.honest \in BOOLEAN /\ a.from \in seen \cup {None} /\ seen \subseteq Archives
  BY <1>1, FetchedFrom DEF Reader!FetchDirectory, Reader!Remember, ReaderInv
<1> DEFINE ok == a.from # None /\ Reader!DirectoryIsGood(a.from, end) /\ Reader!EntryIsGood(Reader!Entry(a.from))
<1>3. CASE ok
  <2>1. /\ member' = Reader!Entry(a.from) /\ stage' = "header"
        /\ UNCHANGED <<full, total, end, rest, result>> /\ a.from \in seen
    BY <1>1, <1>2, <1>3
  <2>2. Cardinality(Reader!Listed(a.from)) = 1
    BY <1>3, ReaderCounts DEF Reader!DirectoryIsGood
  <2>3. ASSUME NEW o \in seen, seen = {o} PROVE ReadSoFar(o)'
    <3>1. a.from = o /\ EndRead(o)
      BY <1>2, <2>1, <2>3 DEF ReaderInv, ReadSoFar
    <3>2. EndRead(o)' /\ DirectoryRead(o)'
      BY <1>3, <2>1, <3>1 DEF EndRead, DirectoryRead
    <3>3. QED
      BY <2>1, <3>2 DEF ReadSoFar
  <2>4. Entries' /\ Results'
    BY <1>2, <2>1, <2>2 DEF ReaderInv, Entries, Results
  <2>5. QED
    BY <1>2, <2>1, <2>3, <2>4 DEF ReaderInv
<1>4. CASE ~ok
  <2>1. Reader!Fail
    BY <1>1, <1>4
  <2>2. ASSUME a.honest, NEW o \in seen, seen = {o}, o \in Reader!Wheels PROVE FALSE
    <3>1. EndRead(o) /\ o \in Archives
      BY <1>2, <2>2 DEF ReaderInv, ReadSoFar
    <3>2. PICK i \in 1..Len(o.members) :
            /\ Reader!IsWheelWith(o, i, TextOf[o])
            /\ Reader!Entry(o) = o.members[i] /\ Cardinality(Reader!Listed(o)) = 1
      BY <2>2, <3>1, WheelIs
    <3>3. Reader!DirectoryIsGood(o, end) /\ Reader!EntryIsGood(Reader!Entry(o))
      BY <3>1, <3>2, ReaderCounts DEF EndRead, Reader!IsWheelWith, Reader!DirectoryIsGood, Reader!EntryIsGood
    <3>4. o.end.dirAt \in Nat /\ o.end.dirSize \in Nat /\ o.end.at \in Nat /\ o.end.comment \in Nat /\ EndSize \in Nat
      BY <3>1, ReaderData DEF Reader!DataAssumption, Reader!IsArchive
    <3>5. /\ end = o.end /\ total = o.size /\ o.end.dirAt + o.end.dirSize = o.end.at /\ o.end.dirSize > 0
          /\ o.end.at + EndSize + o.end.comment = o.size
      BY <3>1, <3>4 DEF EndRead, Reader!EndIsGood, Reader!EndIsFound
    <3>6. Reader!InBounds(end.dirAt, end.dirSize) /\ end.dirAt \in Nat /\ end.dirSize \in Nat
      BY <3>4, <3>5 DEF Reader!InBounds
    <3>7. a.from = o
      BY <1>1, <2>2, <3>1, <3>6, FetchedAll
    <3>8. o # None
      BY <3>1, ReaderData DEF Reader!DataAssumption
    <3>9. QED
      BY <1>4, <3>3, <3>7, <3>8
  <2>3. QED
    BY <1>2, <2>1, <2>2, Failing DEF Reader!Fetches, ReaderInv
<1>5. QED
  BY <1>3, <1>4

LEMMA HeaderStep == ASSUME ReaderInv, Reader!FetchHeader PROVE ReaderInv'
<1>1. PICK a \in Reader!FetchExact(member.at, HeaderSize) :
        /\ IF a.from # None /\ member.at \in DOMAIN a.from.headers
              /\ Reader!Agrees(a.from.headers[member.at], member)
           THEN /\ rest' = a.from.headers[member.at].rest /\ stage' = "names"
                /\ UNCHANGED <<full, total, end, member, result>>
           ELSE Reader!Fail
        /\ Reader!Remember(a)
  BY DEF Reader!FetchHeader
<1>2. /\ stage = "header" /\ UNCHANGED <<object, seen>> /\ faithful' = (faithful /\ a.honest)
      /\ a.honest \in BOOLEAN /\ a.from \in seen \cup {None} /\ seen \subseteq Archives
  BY <1>1, FetchedFrom DEF Reader!FetchHeader, Reader!Remember, ReaderInv
<1> DEFINE ok == a.from # None /\ member.at \in DOMAIN a.from.headers
                 /\ Reader!Agrees(a.from.headers[member.at], member)
<1>3. CASE ok
  <2>1. /\ rest' = a.from.headers[member.at].rest /\ stage' = "names"
        /\ UNCHANGED <<full, total, end, member, result>> /\ a.from \in seen
    BY <1>1, <1>2, <1>3
  <2>2. ASSUME NEW o \in seen, seen = {o} PROVE ReadSoFar(o)'
    <3>1. a.from = o /\ EndRead(o) /\ DirectoryRead(o)
      BY <1>2, <2>1, <2>2 DEF ReaderInv, ReadSoFar
    <3>2. EndRead(o)' /\ DirectoryRead(o)' /\ HeaderRead(o)'
      BY <1>3, <2>1, <3>1 DEF EndRead, DirectoryRead, HeaderRead
    <3>3. QED
      BY <2>1, <3>2 DEF ReadSoFar
  <2>3. Entries' /\ Results'
    BY <1>2, <2>1 DEF ReaderInv, Entries, Results
  <2>4. QED
    BY <1>2, <2>1, <2>2, <2>3 DEF ReaderInv
<1>4. CASE ~ok
  <2>1. Reader!Fail
    BY <1>1, <1>4
  <2>2. ASSUME a.honest, NEW o \in seen, seen = {o}, o \in Reader!Wheels PROVE FALSE
    <3>1. EndRead(o) /\ DirectoryRead(o) /\ o \in Archives
      BY <1>2, <2>2 DEF ReaderInv, ReadSoFar
    <3>2. PICK i \in 1..Len(o.members) : Reader!IsWheelWith(o, i, TextOf[o]) /\ member = o.members[i]
      BY <2>2, <3>1, WheelIs DEF DirectoryRead
    <3>3. WheelAt(o, i)
      BY <3>1, <3>2, WheelBounds
    <3>4. member.at \in DOMAIN o.headers /\ Reader!Agrees(o.headers[member.at], member)
      BY <3>2, <3>3 DEF WheelAt, Reader!Agrees
    <3>5. Reader!InBounds(member.at, HeaderSize) /\ member.at \in Nat /\ HeaderSize \in Nat
      <4> DEFINE names == o.headers[member.at].rest
      <4>1. /\ {member.at, member.csize, names, HeaderSize, o.size} \subseteq Nat /\ HeaderSize > 0
            /\ member.at + HeaderSize + names + member.csize <= o.size /\ total = o.size
        BY <3>1, <3>2, <3>3 DEF WheelAt, EndRead
      <4>2. QED
        BY <4>1 DEF Reader!InBounds
    <3>6. a.from = o /\ o # None
      BY <1>1, <2>2, <3>1, <3>5, FetchedAll, ReaderData DEF Reader!DataAssumption
    <3>7. QED
      BY <1>4, <3>4, <3>6
  <2>3. QED
    BY <1>2, <2>1, <2>2, Failing DEF Reader!Fetches, ReaderInv
<1>5. QED
  BY <1>3, <1>4

LEMMA NamesStep == ASSUME ReaderInv, Reader!FetchNames PROVE ReaderInv'
<1>1. PICK a \in Reader!FetchExact(member.at + HeaderSize, rest) :
        /\ \/ /\ a.from # None /\ Reader!Named(a.from)
              /\ stage' = "data" /\ UNCHANGED Reader!found
           \/ /\ a.from # None /\ Reader!Named(a.from) => a.from.headers[member.at].rest # rest
              /\ Reader!Fail
        /\ Reader!Remember(a)
  BY DEF Reader!FetchNames
<1>2. /\ stage = "names" /\ UNCHANGED <<object, seen>> /\ faithful' = (faithful /\ a.honest)
      /\ a.honest \in BOOLEAN /\ a.from \in seen \cup {None} /\ seen \subseteq Archives
      /\ a.from # None => rest > 0
  BY <1>1, FetchedFrom DEF Reader!FetchNames, Reader!Remember, Reader!InBounds, ReaderInv
<1>3. CASE a.from # None /\ Reader!Named(a.from) /\ stage' = "data" /\ UNCHANGED Reader!found
  <2>1. UNCHANGED <<full, total, end, member, rest, result>> /\ a.from \in seen
    BY <1>2, <1>3 DEF Reader!found
  <2>2. ASSUME NEW o \in seen, seen = {o} PROVE ReadSoFar(o)'
    <3>1. a.from = o /\ EndRead(o) /\ DirectoryRead(o) /\ HeaderRead(o)
      BY <1>2, <2>1, <2>2 DEF ReaderInv, ReadSoFar
    <3>2. EndRead(o)' /\ DirectoryRead(o)' /\ HeaderRead(o)' /\ NamesRead(o)'
      BY <1>2, <1>3, <2>1, <3>1 DEF EndRead, DirectoryRead, HeaderRead, NamesRead, Reader!Named
    <3>3. QED
      BY <1>3, <3>2 DEF ReadSoFar
  <2>3. Entries' /\ Results'
    BY <1>2, <1>3, <2>1 DEF ReaderInv, Entries, Results
  <2>4. QED
    BY <1>2, <1>3, <2>1, <2>2, <2>3 DEF ReaderInv
<1>4. CASE (a.from # None /\ Reader!Named(a.from) => a.from.headers[member.at].rest # rest) /\ Reader!Fail
  <2>1. ASSUME a.honest, NEW o \in seen, seen = {o}, o \in Reader!Wheels PROVE FALSE
    <3>1. EndRead(o) /\ DirectoryRead(o) /\ HeaderRead(o) /\ o \in Archives
      BY <1>2, <2>1 DEF ReaderInv, ReadSoFar
    <3>2. PICK i \in 1..Len(o.members) : Reader!IsWheelWith(o, i, TextOf[o]) /\ member = o.members[i]
      BY <2>1, <3>1, WheelIs DEF DirectoryRead
    <3>3. WheelAt(o, i)
      BY <3>1, <3>2, WheelBounds
    <3>4. Reader!Named(o) /\ o.headers[member.at].rest = rest
      BY <3>1, <3>2, <3>3 DEF WheelAt, HeaderRead, Reader!Named
    <3>5. /\ Reader!InBounds(member.at + HeaderSize, rest)
          /\ member.at + HeaderSize \in Nat /\ rest \in Nat
      <4>1. /\ {member.at, member.csize, rest, HeaderSize, o.size} \subseteq Nat /\ rest > 0
            /\ member.at + HeaderSize + rest + member.csize <= o.size /\ total = o.size
        BY <3>1, <3>2, <3>3, <3>4 DEF WheelAt, EndRead
      <4>2. QED
        BY <4>1 DEF Reader!InBounds
    <3>6. a.from = o /\ o # None
      BY <1>1, <2>1, <3>1, <3>5, FetchedAll, ReaderData DEF Reader!DataAssumption
    <3>7. QED
      BY <1>4, <3>4, <3>6
  <2>2. QED
    BY <1>2, <1>4, <2>1, Failing DEF Reader!Fetches, ReaderInv
<1>5. QED
  BY <1>1, <1>3, <1>4

LEMMA DataStep == ASSUME ReaderInv, Reader!FetchData PROVE ReaderInv'
<1> DEFINE at == Reader!DataAt
<1>1. PICK a \in Reader!FetchExact(at, member.csize) :
        /\ IF a.from # None /\ Reader!Inflates(a.from) /\ Reader!ChecksumFits(a.from.texts[at].text)
           THEN /\ result' = a.from.texts[at].text /\ stage' = "done"
                /\ UNCHANGED <<full, total, end, member, rest>>
           ELSE Reader!Fail
        /\ Reader!Remember(a)
  BY DEF Reader!FetchData
<1>2. /\ stage = "data" /\ UNCHANGED <<object, seen>> /\ faithful' = (faithful /\ a.honest)
      /\ a.honest \in BOOLEAN /\ a.from \in seen \cup {None} /\ seen \subseteq Archives
      /\ a.from # None => at + member.csize <= total
  BY <1>1, FetchedFrom DEF Reader!FetchData, Reader!Remember, Reader!InBounds, ReaderInv
<1> DEFINE ok == a.from # None /\ Reader!Inflates(a.from) /\ Reader!ChecksumFits(a.from.texts[at].text)
<1>3. CASE ok
  <2>1. /\ result' = a.from.texts[at].text /\ stage' = "done"
        /\ UNCHANGED <<full, total, end, member, rest>> /\ a.from \in seen
    BY <1>1, <1>2, <1>3
  <2>2. at' = at
    BY <2>1 DEF Reader!DataAt
  <2>3. ASSUME NEW o \in seen, seen = {o} PROVE ReadSoFar(o)'
    <3>1. a.from = o /\ EndRead(o) /\ DirectoryRead(o) /\ HeaderRead(o) /\ NamesRead(o)
      BY <1>2, <2>1, <2>3 DEF ReaderInv, ReadSoFar
    <3>2. EndRead(o)' /\ DirectoryRead(o)' /\ HeaderRead(o)' /\ NamesRead(o)'
      BY <2>1, <3>1 DEF EndRead, DirectoryRead, HeaderRead, NamesRead, Reader!Named
    <3>3. DataRead(o)'
      BY <1>2, <1>3, <2>1, <2>2, <3>1 DEF DataRead, Reader!Inflates, Reader!ChecksumFits
    <3>4. QED
      BY <3>2, <3>3 DEF ReadSoFar
  <2>4. result' \in DOMAIN Crc /\ Crc[result'] = member'.crc
    <3>1. at \in DOMAIN a.from.texts /\ a.from \in Archives
      BY <1>2, <1>3, <2>1 DEF Reader!Inflates
    <3>2. result' \in DOMAIN Crc
      BY <2>1, <3>1, ReaderData DEF Reader!DataAssumption, Reader!IsArchive
    <3>3. QED
      BY <1>3, <2>1, <3>2 DEF Reader!ChecksumFits
  <2>5. result' # None
    BY <2>4, ReaderData DEF Reader!DataAssumption
  <2>6. Entries' /\ Results'
    BY <1>2, <2>1, <2>4, <2>5 DEF ReaderInv, Entries, Results
  <2>7. QED
    BY <1>2, <2>1, <2>3, <2>6 DEF ReaderInv
<1>4. CASE ~ok
  <2>1. Reader!Fail
    BY <1>1, <1>4
  <2>2. ASSUME a.honest, NEW o \in seen, seen = {o}, o \in Reader!Wheels PROVE FALSE
    <3>1. EndRead(o) /\ DirectoryRead(o) /\ HeaderRead(o) /\ o \in Archives
      BY <1>2, <2>2 DEF ReaderInv, ReadSoFar
    <3>2. PICK i \in 1..Len(o.members) : Reader!IsWheelWith(o, i, TextOf[o]) /\ member = o.members[i]
      BY <2>2, <3>1, WheelIs DEF DirectoryRead
    <3>3. WheelAt(o, i)
      BY <3>1, <3>2, WheelBounds
    <3>4. rest = o.headers[member.at].rest
      BY <3>1 DEF HeaderRead
    <3>5. at = member.at + HeaderSize + o.headers[member.at].rest
      BY <3>4 DEF Reader!DataAt
    <3>6. Reader!Inflates(o) /\ Reader!ChecksumFits(o.texts[at].text)
      BY <3>2, <3>3, <3>5 DEF WheelAt, Reader!Inflates, Reader!ChecksumFits
    <3>7. Reader!InBounds(at, member.csize) /\ at \in Nat /\ member.csize \in Nat
      <4>1. /\ {member.at, member.csize, rest, HeaderSize, o.size} \subseteq Nat /\ member.csize > 0
            /\ member.at + HeaderSize + rest + member.csize <= o.size /\ total = o.size
        BY <3>1, <3>2, <3>3, <3>4 DEF WheelAt, EndRead
      <4>2. QED
        BY <4>1 DEF Reader!InBounds, Reader!DataAt
    <3>8. a.from = o /\ o # None
      BY <1>1, <2>2, <3>1, <3>7, FetchedAll, ReaderData DEF Reader!DataAssumption
    <3>9. QED
      BY <1>4, <3>6, <3>8
  <2>3. QED
    BY <1>2, <2>1, <2>2, Failing DEF Reader!Fetches, ReaderInv
<1>5. QED
  BY <1>3, <1>4

LEMMA ReplaceStep == ASSUME ReaderInv, Reader!Replace PROVE ReaderInv'
<1>1. /\ object' \in Archives /\ seen' = seen \cup {object'} /\ stage \in Reader!Fetches
      /\ UNCHANGED <<stage, full, total, end, member, rest, result, faithful>>
  BY ReaderData DEF Reader!Replace, Reader!found, Reader!DataAssumption
<1>2. ASSUME NEW o \in seen', seen' = {o} PROVE ReadSoFar(o)' /\ stage' # "failed"
  <2>1. seen = {o} /\ o \in seen
    BY <1>1, <1>2 DEF ReaderInv
  <2>2. ReadSoFar(o)
    BY <2>1 DEF ReaderInv
  <2>3. EndRead(o)' = EndRead(o) /\ DirectoryRead(o)' = DirectoryRead(o) /\ HeaderRead(o)' = HeaderRead(o)
        /\ NamesRead(o)' = NamesRead(o)
    BY <1>1 DEF EndRead, DirectoryRead, HeaderRead, NamesRead, Reader!Named
  <2>4. QED
    BY <1>1, <2>2, <2>3 DEF ReadSoFar, Reader!Fetches
<1>3. Entries' /\ Results'
  BY <1>1 DEF ReaderInv, Entries, Results
<1>4. QED
  BY <1>1, <1>2, <1>3 DEF ReaderInv

LEMMA ReaderInit == Reader!Init => ReaderInv
BY ReaderData DEF Reader!DataAssumption, Reader!Init, ReaderInv, Entries, Results, ReadSoFar

LEMMA ReaderHolds == Spec => [](part = "wheel" => ReaderInv)
<1> DEFINE Inv == part = "wheel" => ReaderInv
<1>1. Init => Inv
  BY ReaderInit DEF Init
<1>2. Inv /\ [Next]_vars => Inv'
  <2> SUFFICES ASSUME ReaderInv, [Next]_vars, part = "wheel", part' = "wheel" PROVE ReaderInv'
    BY DEF Next, vars, ReadWheel, FollowLink, ConvertEntry, NegotiateFormat, AnswerListing
  <2>1. CASE Next
    <3>1. Reader!Next
      BY <2>1 DEF Next, ReadWheel, FollowLink, ConvertEntry, NegotiateFormat, AnswerListing
    <3>2. QED
      BY <3>1, SuffixStep, DirectoryStep, HeaderStep, NamesStep, DataStep, ReplaceStep DEF Reader!Next
  <2>2. CASE UNCHANGED vars
    <3>1. UNCHANGED <<stage, object, full, total, end, member, rest, result, seen, faithful>>
      BY <2>2 DEF vars, readerVars
    <3>2. \A o : ReadSoFar(o)' = ReadSoFar(o)
      BY <3>1 DEF ReadSoFar, EndRead, DirectoryRead, HeaderRead, NamesRead, DataRead, Reader!Named,
         Reader!Inflates, Reader!ChecksumFits, Reader!DataAt
    <3>3. QED
      BY <3>1, <3>2 DEF ReaderInv, Entries, Results
  <2>3. QED
    BY <2>1, <2>2
<1>3. QED
  BY <1>1, <1>2, PTL DEF Spec

(* A wheel whose METADATA was read has nothing wrong with it, whatever the  *)
(* server answered.                                                         *)
THEOREM OnlyWheelsAreRead == Spec => []FailsClosed
<1>1. (part = "wheel" => ReaderInv) => FailsClosed
  <2> SUFFICES ASSUME ReaderInv, result # None, NEW o \in seen, seen = {o}
               PROVE  o \in Reader!Wheels /\ result = TextOf[o]
    BY DEF FailsClosed, Reader!FailsClosed
  <2>1. stage = "done" /\ result \in DOMAIN Crc /\ o \in Archives /\ ReadSoFar(o)
    BY DEF ReaderInv, Results
  <2>2. EndRead(o) /\ DirectoryRead(o) /\ HeaderRead(o) /\ NamesRead(o) /\ DataRead(o)
    BY <2>1 DEF ReadSoFar
  <2>3. QED
    BY <2>1, <2>2, ReadIsWheel
<1>2. QED
  BY <1>1, ReaderHolds, PTL

(* A wheel with nothing wrong is read, if the server does as it is asked.   *)
THEOREM WheelsAreRead == Spec => []SoundWheelsAreRead
<1>1. (part = "wheel" => ReaderInv) => SoundWheelsAreRead
  BY DEF ReaderInv, SoundWheelsAreRead, Reader!SoundWheelsAreRead
<1>2. QED
  BY <1>1, ReaderHolds, PTL

(* However often a wheel is replaced by another in the course of its        *)
(* extraction, the result is the METADATA of one of them.                   *)
THEOREM NoMixture == Spec => []ResultIsOfOneWheel
<1>1. (part = "wheel" => ReaderInv) => ResultIsOfOneWheel
  <2> SUFFICES ASSUME ReaderInv, result # None, seen \subseteq Reader!Wheels
               PROVE  \E o \in seen : result = TextOf[o]
    BY DEF ResultIsOfOneWheel, Reader!ResultIsOfOneWheel
  <2>1. /\ stage = "done" /\ result \in DOMAIN Crc /\ Crc[result] = member.crc
        /\ seen \subseteq Archives
    BY DEF ReaderInv, Results
  <2>2. PICK o \in seen : member = Reader!Entry(o)
    BY <2>1 DEF ReaderInv, Entries
  <2>3. PICK i \in 1..Len(o.members) :
            /\ Reader!IsWheelWith(o, i, TextOf[o]) /\ TextOf[o] \in DOMAIN Crc
            /\ Reader!Entry(o) = o.members[i]
    BY <2>1, <2>2, WheelIs
  <2>4. member.crc = Crc[TextOf[o]]
    BY <2>2, <2>3 DEF Reader!IsWheelWith
  <2>5. QED
    BY <2>1, <2>3, <2>4, ReaderData DEF Reader!DataAssumption
<1>2. QED
  BY <1>1, ReaderHolds, PTL
==============================================================================
