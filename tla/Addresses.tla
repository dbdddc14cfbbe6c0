------------------------------- MODULE Addresses -------------------------------
(***************************************************************************)
(* The addresses of one application: what the platform hands out           *)
(* (service_url.go), and where a request to one goes (handlers_proxy.go,   *)
(* ServiceForPath).  The version that runs may change at any moment, in    *)
(* the middle of a request too.  A path is its segments, the last one ""   *)
(* when it ends in a slash: /leave/api/ is <<"leave", "api", "">>.         *)
(*                                                                         *)
(*   idle -> sent -> resolved -> answered                                  *)
(*            \-> redirected    \-> notFound                               *)
(***************************************************************************)
EXTENDS Integers, Sequences

CONSTANTS
    App,
    Services,       \* the names its versions' services may have
    Pages,          \* what else a path may name
    MaxSegments     \* bound: segments of a path

ASSUME AddressesAssumption ==
    /\ {App, "run"} \cap (Services \cup Pages) = {} /\ App # "run"
    /\ "" \notin Services \cup Pages
    /\ MaxSegments \in Nat

VARIABLES
    version,        \* the services of the version that runs; none if none does
    visit           \* one request, and the browser it comes from

addressVars == <<version, visit>>

NoVisit == [pc |-> "idle", url |-> <<"">>, page |-> FALSE, svc |-> "", rest |-> <<"">>,
              seen |-> {}]

(***************************************************************************)
(* What the platform hands out                                             *)
(***************************************************************************)
DefaultService(names) ==
    IF "frontend" \in names THEN {"frontend"}
    ELSE {s \in names : names = {s}}

ServiceURL(names, s) ==
    IF s \in DefaultService(names) THEN <<App, "">> ELSE <<App, s, "">>

(***************************************************************************)
(* Where a path goes, a version given                                      *)
(***************************************************************************)
Rest(segments) == IF segments = <<>> THEN <<"">> ELSE segments

Redirect(url) == [kind |-> "redirect", url |-> url]
Forward(s, rest) == [kind |-> "forward", svc |-> s, rest |-> Rest(rest)]
NotFound == [kind |-> "notFound"]

\* Bug: a service's bare address is served where it is.
BareService_Served(url, page) == FALSE

BareService(url, page) == page /\ Len(url) = 3

\* /run/{app}/{service}/...
ServeRun(url, page) ==
    IF Len(url) < 3 \/ url[2] # App \/ url[3] = "" THEN NotFound
    ELSE IF BareService(url, page) THEN Redirect(Append(url, ""))
    ELSE Forward(url[3], SubSeq(url, 4, Len(url)))

ServiceForPath(names, first) ==
    IF first \in names THEN [svc : {first}, consumes : {TRUE}]
    ELSE [svc : DefaultService(names), consumes : {FALSE}]

BareSegment(url, page) == page /\ Len(url) = 2

\* /{app}/...
ServeApp(names, url, page) ==
    LET first == IF Len(url) = 1 THEN "" ELSE url[2]
        found == ServiceForPath(names, first)
    IN  IF url[1] # App THEN {NotFound}
        ELSE IF page /\ Len(url) = 1 THEN {Redirect(<<App, "">>)}
        ELSE IF found = {} THEN {NotFound}
        ELSE {IF f.consumes /\ BareSegment(url, page) THEN Redirect(<<App, first, "">>)
              ELSE Forward(f.svc, SubSeq(url, IF f.consumes THEN 3 ELSE 2, Len(url))) : f \in found}

\* The gateway: the long form as it is, the rest to the applications.
Serve(names, url, page) ==
    IF url[1] = "run" THEN {ServeRun(url, page)} ELSE ServeApp(names, url, page)

(***************************************************************************)
(* A request                                                               *)
(***************************************************************************)
Links == Services \cup Pages \cup {""}
Relative(url, link) == Append(SubSeq(url, 1, Len(url) - 1), link)

Urls ==
    {<<App>>} \cup ({App} \X Links) \cup ({App} \X Services \X Links)
    \cup ({"run"} \X {App} \X Services) \cup ({"run"} \X {App} \X Services \X Links)

Visit ==
    /\ visit.pc = "idle"
    /\ \E url \in Urls, page \in BOOLEAN :
          visit' = [NoVisit EXCEPT !.pc = "sent", !.url = url, !.page = page]
    /\ UNCHANGED version

Resolve ==
    /\ visit.pc = "sent"
    /\ \E r \in Serve(version, visit.url, visit.page) :
          visit' = CASE r.kind = "notFound" -> [visit EXCEPT !.pc = "notFound"]
                       [] r.kind = "redirect" -> [visit EXCEPT !.pc = "redirected", !.url = r.url]
                       [] r.kind = "forward" ->
                            [visit EXCEPT !.pc = "resolved", !.svc = r.svc, !.rest = r.rest, !.seen = version]
    /\ UNCHANGED version

FollowRedirect ==
    /\ visit.pc = "redirected"
    /\ visit' = [visit EXCEPT !.pc = "sent"]
    /\ UNCHANGED version

\* The version is looked up again, and the start may fail.
EnsureRunningByName ==
    /\ visit.pc = "resolved"
    /\ \/ visit.svc \in version /\ visit' = [visit EXCEPT !.pc = "answered"]
       \/ visit' = [visit EXCEPT !.pc = "notFound"]
    /\ UNCHANGED version

FollowLink ==
    /\ visit.pc = "answered" /\ visit.page /\ Len(visit.url) < MaxSegments
    /\ \E link \in Links :
          visit' = [NoVisit EXCEPT !.pc = "sent", !.url = Relative(visit.url, link), !.page = TRUE]
    /\ UNCHANGED version

CloseTab ==
    /\ visit.pc \in {"answered", "notFound"}
    /\ visit' = NoVisit
    /\ UNCHANGED version

\* A deployment, a suspension, a deletion.
VersionChanges ==
    /\ \E names \in SUBSET Services : version' = names
    /\ UNCHANGED visit

AddressesInit == version = {} /\ visit = NoVisit

AddressesNext ==
    \/ Visit \/ Resolve \/ FollowRedirect \/ EnsureRunningByName
    \/ FollowLink \/ CloseTab \/ VersionChanges

AddressesSpec == AddressesInit /\ [][AddressesNext]_addressVars

(***************************************************************************)
(* Properties                                                              *)
(***************************************************************************)
\* A page sent from where its service is addressed has its relative links
\* lead back to that service, unless another service has the link's name: the
\* reason of both redirects (handlers_proxy.go:170-178), for as long as the
\* version the request was resolved under runs.
LinksStay ==
    visit.pc = "answered" /\ visit.page /\ visit.rest = <<"">> /\ visit.seen = version
        => \A link \in Pages \ version : \A r \in Serve(version, Relative(visit.url, link), TRUE) :
              r = Forward(visit.svc, <<link>>)

\* Whatever version runs, the address handed out for each of its services
\* (service_url.go:42-50) is served by that service, from its root, without a
\* round trip.
AddressReaches ==
    \A s \in version : Serve(version, ServiceURL(version, s), TRUE) = {Forward(s, <<"">>)}

\* The addresses handed out work, and so do the pages found there.
AddressesHold == AddressReaches /\ LinksStay
================================================================================
