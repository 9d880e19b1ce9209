-------------------------- MODULE DashboardAccess --------------------------
(***************************************************************************)
(* Who may use the dashboard of a Hub (internal/hub/hub.go,                *)
(* web_dashboard.go).  The Hub mints a one-use link; the browser that      *)
(* presents it gets a session and a cookie; every use of the session       *)
(* starts its lifetime anew on both sides; a new generation of the web     *)
(* listener forgets every link and session.  Handlers of the old listener  *)
(* may still run when the Hub has given up waiting for them.               *)
(***************************************************************************)
EXTENDS Naturals, FiniteSets, Sequences

CONSTANTS Browsers,
          MaxSessions,     \* sessions the Hub keeps (32)
          SessionLife,     \* a session's lifetime in ticks (24 hours)
          MaxLinks,        \* bound: links minted
          MaxGenerations,  \* bound: starts of the Hub
          MaxLostReplies,  \* bound: answers that never reach the browser
          MaxStalls        \* bound: handlers that outlive their listener

ASSUME AccessAssumption ==
    /\ MaxSessions \in Nat \ {0} /\ SessionLife \in Nat \ {0}
    /\ MaxLinks \in Nat /\ MaxGenerations \in Nat

VARIABLES webUp,      \* the web listener serves
          generation, \* the run of the Hub, which also names its secrets
          link,       \* {} or {the link that may still be exchanged}
          links,      \* links minted so far: link n was minted in generation links[n]
          sessions,   \* what the Hub keeps: [id, left]; an id is <<link, browser>>
          cookie,     \* [Browsers -> {} or {[id, left]}]
          opened,     \* [Browsers -> {} or {the link it was opened with}]
          exchange,   \* [Browsers -> {} or {the link its request has consumed}]
          lost, stalls
accessVars == <<webUp, generation, link, links, sessions, cookie, opened, exchange, lost, stalls>>

Ids == (1..MaxLinks) \X Browsers
AccessInit ==
    /\ webUp = FALSE /\ generation = 0 /\ link = {} /\ links = <<>> /\ sessions = {}
    /\ cookie = [b \in Browsers |-> {}] /\ opened = [b \in Browsers |-> {}]
    /\ exchange = [b \in Browsers |-> {}] /\ lost = 0 /\ stalls = 0

Live == {s \in sessions : s.left > 0}

-----------------------------------------------------------------------------
(* The Hub's runs.                                                         *)

ResetDashboardSessions == link' = {} /\ sessions' = {}

\* Start: new secrets, no link, no session; then the listener is bound.
BeginGeneration ==
    /\ ~webUp /\ generation < MaxGenerations
    /\ webUp' = TRUE /\ generation' = generation + 1
    /\ ResetDashboardSessions
    /\ UNCHANGED <<links, cookie, opened, exchange, lost, stalls>>

\* shutdownHTTPServer: waits for the handlers, two seconds at most.
ShutDown ==
    /\ webUp /\ webUp' = FALSE
    /\ IF \A b \in Browsers : exchange[b] = {} THEN stalls' = stalls
       ELSE stalls < MaxStalls /\ stalls' = stalls + 1
    /\ UNCHANGED <<generation, link, links, sessions, cookie, opened, exchange, lost>>

-----------------------------------------------------------------------------
(* Links and sessions.                                                     *)

\* The Hub opens a browser, or the user asks for a link of his own, which
\* takes the place of one not used yet.
DashboardURL(b, forceNew) ==
    /\ webUp
    /\ IF forceNew \/ link = {}
       THEN /\ Len(links) < MaxLinks
            /\ links' = Append(links, generation) /\ link' = {Len(links) + 1}
       ELSE UNCHANGED <<link, links>>
    /\ opened' = [opened EXCEPT ![b] = link']
    /\ UNCHANGED <<webUp, generation, sessions, cookie, exchange, lost, stalls>>

\* POST /api/session: the link is taken away before there is a session, so
\* nobody else can exchange it; a link replaced or used is refused.
ConsumeDashboardBootstrap(b) ==
    /\ webUp /\ opened[b] # {} /\ exchange[b] = {}
    /\ opened' = [opened EXCEPT ![b] = {}]
    /\ IF opened[b] = link
       THEN exchange' = [exchange EXCEPT ![b] = link] /\ link' = {}
       ELSE UNCHANGED <<exchange, link>>
    /\ UNCHANGED <<webUp, generation, links, sessions, cookie, lost, stalls>>

\* The answer reaches the browser and sets its cookie, or is lost.
SetCookie(b, id) ==
    \/ cookie' = [cookie EXCEPT ![b] = {[id |-> id, left |-> SessionLife]}] /\ lost' = lost
    \/ cookie' = cookie /\ lost < MaxLostReplies /\ lost' = lost + 1

\* Dead sessions make room; with none the link is spent for nothing.
NewDashboardSession(b) ==
    /\ \E l \in exchange[b] :
          IF Cardinality(Live) >= MaxSessions
          THEN sessions' = Live /\ UNCHANGED <<cookie, lost>>
          ELSE /\ sessions' = Live \cup {[id |-> <<l, b>>, left |-> SessionLife]}
               /\ SetCookie(b, <<l, b>>)
    /\ exchange' = [exchange EXCEPT ![b] = {}]
    /\ UNCHANGED <<webUp, generation, link, links, opened, stalls>>

\* A live session starts its lifetime anew, a dead one goes.
TouchDashboardSession(id) ==
    LET mine == {s \in sessions : s.id = id}
    IN sessions' = (sessions \ mine) \cup {[s EXCEPT !.left = SessionLife] : s \in mine \cap Live}

Request_CookieKept(b) ==
    /\ webUp
    /\ \E c \in cookie[b] : TouchDashboardSession(c.id)
    /\ UNCHANGED <<webUp, generation, link, links, cookie, opened, exchange, lost, stalls>>

\* Any other API request: the session decides, and its cookie is sent again.
Request(b) ==
    /\ webUp
    /\ \E c \in cookie[b] :
          /\ TouchDashboardSession(c.id)
          /\ IF \E s \in Live : s.id = c.id THEN SetCookie(b, c.id) ELSE UNCHANGED <<cookie, lost>>
    /\ UNCHANGED <<webUp, generation, link, links, opened, exchange, stalls>>

\* Time passes on both sides; the browser forgets a cookie that is over.
Aged(s) == [s EXCEPT !.left = IF @ = 0 THEN 0 ELSE @ - 1]
TimePasses ==
    /\ sessions' = {Aged(s) : s \in sessions}
    /\ cookie' = [b \in Browsers |-> {c \in {Aged(d) : d \in cookie[b]} : c.left > 0}]
    /\ UNCHANGED <<webUp, generation, link, links, opened, exchange, lost, stalls>>

AccessNext ==
    \/ BeginGeneration \/ ShutDown \/ TimePasses
    \/ \E b \in Browsers : \/ \E forceNew \in BOOLEAN : DashboardURL(b, forceNew)
                           \/ ConsumeDashboardBootstrap(b) \/ NewDashboardSession(b) \/ Request(b)
AccessSpec == AccessInit /\ [][AccessNext]_accessVars

-----------------------------------------------------------------------------
AccessTypeOK ==
    /\ webUp \in BOOLEAN /\ generation \in 0..MaxGenerations /\ Len(links) <= MaxLinks
    /\ link \subseteq DOMAIN links /\ Cardinality(link) <= 1
    /\ sessions \subseteq [id : Ids, left : 0..SessionLife] /\ Cardinality(sessions) <= MaxSessions
    /\ \A b \in Browsers : /\ Cardinality(cookie[b]) <= 1 /\ Cardinality(exchange[b]) <= 1
                           /\ cookie[b] \subseteq [id : Ids, left : 1..SessionLife]

\* One link, one browser: whatever two requests do at once, a link in the hand
\* of one is open to no other and has no session yet.
LinkUsedOnce ==
    /\ \A s, t \in sessions : s.id[1] = t.id[1] => s.id = t.id
    /\ \A b, d \in Browsers : exchange[b] \cap exchange[d] # {} => b = d
    /\ \A b \in Browsers : \A l \in exchange[b] : l \notin link /\ \A s \in sessions : s.id[1] # l

\* A browser that uses its dashboard is not logged out of this run: as long as
\* it holds a cookie the Hub holds the session, and for exactly as long when
\* every answer arrived.
ActiveBrowserKept ==
    \A b \in Browsers : \A c \in cookie[b] : links[c.id[1]] = generation =>
        \E s \in sessions : s.id = c.id /\ s.left >= c.left /\ (lost = 0 => s.left = c.left)

\* A browser authorised for an earlier run does not control this one, unless
\* its handler outlived both the listener and the two seconds it was given.
EarlierRunsOut == stalls = 0 => \A s \in sessions : links[s.id[1]] = generation

\* Links, sessions and cookies agree about who may use the dashboard.
AccessGuarded == AccessTypeOK /\ LinkUsedOnce /\ ActiveBrowserKept /\ EarlierRunsOut
=============================================================================
