------------------------------ MODULE Artifacts ------------------------------
(***************************************************************************)
(* app/artifacts.py, with what app/metadata.py and app/metadata_route.py   *)
(* make of its URLs: a link of a project page on its way from upstream to  *)
(* the client and back as a request for the metadata of the file.          *)
(*                                                                         *)
(* A URL is a record of its parts.  Its kind is "absolute", "relative", or  *)
(* "artifact": /artifacts/<host>[:<port>]/<path>, which has no scheme.  A  *)
(* path is a name and whether it is written with a percent escape.         *)
(* Fragments, which only clients use, and path parameters are left out.    *)
(***************************************************************************)
EXTENDS Naturals, FiniteSets

CONSTANTS
    Links,      \* as upstream may write them
    Settings,   \* [files, allowlist, rewrite, scheme], see app/config.py
    None

(* A record of the parts of a URL; the parts may be anything.               *)
IsUrl(u) ==
    /\ u = [kind |-> u.kind, scheme |-> u.scheme, host |-> u.host, port |-> u.port,
            path |-> u.path, query |-> u.query]
    /\ u.path = [name |-> u.path.name, escaped |-> u.path.escaped]
    /\ u.kind \in {"absolute", "relative", "artifact"} /\ u.path.escaped \in BOOLEAN

DataAssumption == \A u \in Links : IsUrl(u)

VARIABLES
    settings,
    link,       \* as upstream wrote it
    page,       \* as the page in the cache has it
    stage,      \* "read", "kept" in the cache, "enriched" or "advertised" there, "asked"
    stored,     \* identities metadata is stored under
    fetched,    \* history: URLs the application has fetched for the link
    extracted   \* history: how often the wheel was read for its metadata

vars == <<settings, link, page, stage, stored, fetched, extracted>>

Init ==
    /\ settings \in Settings /\ link \in Links
    /\ page = link
    /\ stage = "read"
    /\ stored = {} /\ fetched = {} /\ extracted = 0

------------------------------------------------------------------------------
(* Hosts *)

DefaultPort(scheme) == IF scheme = "http" THEN 80 ELSE 443

(* authority_of: the port is left out where it is the default.              *)
AuthorityOf(u) ==
    [host |-> u.host, port |-> IF u.port = DefaultPort(u.scheme) THEN None ELSE u.port]

(* Settings.artifact_hosts: entries of the list are taken as written.       *)
ArtifactHosts == {AuthorityOf(settings.files)} \cup settings.allowlist
HostAllowed(authority) == authority \in ArtifactHosts

(* _scheme_for *)
SchemeFor(authority) ==
    IF authority = AuthorityOf(settings.files) THEN settings.files.scheme ELSE settings.scheme

------------------------------------------------------------------------------
(* Links *)

Authority(u) == [host |-> u.host, port |-> u.port]

(* urljoin with upstream_files_url: relative links are taken to be files    *)
(* of that host.                                                            *)
Resolve(u) ==
    IF u.kind # "relative" THEN u
    ELSE [u EXCEPT !.kind = "absolute", !.scheme = settings.files.scheme,
                   !.host = settings.files.host, !.port = settings.files.port]

(* Variant: the port is lost. *)
RewriteWithoutPort(u) ==
    LET r == Resolve(u) IN
    IF u.kind = "artifact" \/ ~HostAllowed(AuthorityOf(r)) THEN u
    ELSE [r EXCEPT !.kind = "artifact", !.scheme = None, !.port = None]

(* rewrite_file_url *)
RewriteFileUrl(u) ==
    LET r == Resolve(u) IN
    IF u.kind = "artifact" \/ ~HostAllowed(AuthorityOf(r)) THEN u
    ELSE [r EXCEPT !.kind = "artifact", !.scheme = None, !.port = AuthorityOf(r).port]

(* _artifact_upstream_url, and metadata_head_url but for its suffix.        *)
ArtifactUpstreamUrl(u) ==
    IF u.kind = "artifact" /\ HostAllowed(Authority(u))
    THEN [u EXCEPT !.kind = "absolute", !.scheme = SchemeFor(Authority(u))]
    ELSE IF u.kind = "absolute" /\ HostAllowed(AuthorityOf(u)) THEN u
    ELSE None

(* _artifact_url_digest: the link as it is written, up to its query.        *)
Identity(u) == [u EXCEPT !.query = None]

(* Variant: stored for the URL that was fetched. *)
StoreKeyOfUpstream(u) == Identity(ArtifactUpstreamUrl(u))

(* _store_metadata_content: stored for the link.                            *)
StoreKey(u) == Identity(u)

------------------------------------------------------------------------------
(* The way of a link *)

(* rewrite_json_body, rewrite_html_body and rewrite_project_urls choose the *)
(* same links; the page goes into the cache with them.                      *)
Rewrite ==
    /\ stage = "read"
    /\ \E advertises \in BOOLEAN :
        /\ page' = IF settings.rewrite \/ advertises THEN RewriteFileUrl(link) ELSE link
        /\ stage' = IF advertises THEN "advertised" ELSE "kept"
    /\ UNCHANGED <<settings, link, stored, fetched, extracted>>

(* _resolve_metadata_for_url for a URL of the page or of a request: the     *)
(* store, then native metadata, then the wheel itself.                      *)
Outcomes(u) ==
    IF Identity(u) \in stored THEN {"stored"}
    ELSE IF ArtifactUpstreamUrl(u) = None THEN {"nothing"}
    ELSE {"native", "extracted", "failed"}

Resolved(u, outcome) ==
    /\ fetched' = IF outcome \in {"stored", "nothing"} THEN fetched
                  ELSE fetched \cup {ArtifactUpstreamUrl(u)}
    /\ stored' = IF outcome = "extracted" THEN stored \cup {StoreKey(u)} ELSE stored
    /\ extracted' = IF outcome = "extracted" THEN extracted + 1 ELSE extracted

(* _enrich and _extract_project_after_idle for the file; _advertise_metadata *)
(* rewrites the links of the files it marks.                                *)
Enrich ==
    /\ stage = "kept"
    /\ \E outcome \in Outcomes(page) :
        /\ Resolved(page, outcome)
        /\ IF outcome \in {"nothing", "failed"}
           THEN stage' = "enriched" /\ UNCHANGED page
           ELSE stage' = "advertised" /\ page' = RewriteFileUrl(page)
    /\ UNCHANGED <<settings, link>>

(* The client asks for the URL of the link with .metadata at its end; the   *)
(* framework has decoded the path by the time wheel_metadata sees it.       *)
Decoded(u) == [u EXCEPT !.path.escaped = FALSE]
Ask ==
    /\ stage \in {"advertised", "asked"} /\ page.kind = "artifact" /\ extracted < 2
    /\ IF HostAllowed(Authority(page))
       THEN \E outcome \in Outcomes(Decoded(page)) : Resolved(Decoded(page), outcome)
       ELSE UNCHANGED <<stored, fetched, extracted>>
    /\ stage' = "asked"
    /\ UNCHANGED <<settings, link, page>>

Next == Rewrite \/ Enrich \/ Ask
Spec == Init /\ [][Next]_vars

------------------------------------------------------------------------------
(* Properties *)

(* The variables have their types; the page has the link, or its rewriting, *)
(* and no query is part of an identity.                                     *)
TypeOK ==
    /\ settings \in Settings /\ link \in Links
    /\ page \in {link, RewriteFileUrl(link)}
    /\ stage \in {"read", "kept", "enriched", "advertised", "asked"}
    /\ \A u \in stored \cup fetched : DOMAIN u = DOMAIN link
    /\ \A u \in stored : u.query = None
    /\ extracted \in 0..2

(* What is fetched for a link is what the link is for, although a rewritten *)
(* link has lost its scheme and is written without the default port: the    *)
(* same host, port and file.  (Links to a host by the scheme it is          *)
(* configured for.)                                                         *)
Port(u) == IF u.port = None THEN DefaultPort(u.scheme) ELSE u.port
File(u) == <<u.scheme, u.host, Port(u), u.path.name, u.query>>
FetchedIsLinked ==
    LET target == Resolve(link) IN
    target.kind = "absolute" /\ target.scheme = SchemeFor(AuthorityOf(target)) =>
        \A u \in fetched : File(u) = File(target)

(* "Stores it by wheel SHA256, and serves it from wheel-url.metadata": a    *)
(* request for metadata that was extracted finds it, and the wheel is not   *)
(* read for it again, if links are rewritten before background work sees    *)
(* them and are written as the framework decodes them.                      *)
StoredIsServed == settings.rewrite /\ ~link.path.escaped => extracted <= 1
==============================================================================
