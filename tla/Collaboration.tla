----------------------------- MODULE Collaboration -----------------------------
(***************************************************************************)
(* Teams, shared sessions, comments and the notifications they cause       *)
(* (app/routers/teams.py, sessions.py, comments.py and the modules of      *)
(* app/db they call).  A request reads what it needs to decide, then       *)
(* writes; every statement is a transaction of its own, so requests of     *)
(* other users come between.  What a session or a comment says is left     *)
(* out, and so are the requests that only read.                            *)
(* A row that is deleted keeps its owner here, as its id is not used again.*)
(***************************************************************************)
EXTENDS Naturals, FiniteSets, Bags

CONSTANTS
    Users, Teams, Sessions, Comments,   \* identities
    NoOne,         \* no user, no comment
    MaxRequests,   \* a bound: how many requests are made
    MaxFaults      \* a bound: how many statements fail

VARIABLES
    team,      \* playbook.teams
    role,      \* playbook.team_members
    session,   \* playbook.sessions, with session_teams, subscriptions and pins
    comment,   \* playbook.comments, with their reactions
    notes,     \* playbook.notifications
    req,       \* what each user's request is doing
    requests,  \* how many requests were made
    faults     \* how many statements failed

collabVars == <<team, role, session, comment, notes, req, requests, faults>>

Roles == {"none", "viewer", "member", "admin", "owner"}
Admins == {"admin", "owner"}
NoTeam == [exists |-> FALSE, creator |-> NoOne]
NoSession == [exists |-> FALSE, owner |-> NoOne, visibility |-> "private", public |-> FALSE,
              teams |-> {}, subscribers |-> {}, pins |-> {}]
NoComment == [exists |-> FALSE, session |-> NoOne, author |-> NoOne, parent |-> NoOne,
              suggestion |-> "no", reactions |-> {}]
Idle == [pc |-> "idle"]

Init ==
    /\ team = [t \in Teams |-> NoTeam]
    /\ role = [t \in Teams |-> [u \in Users |-> "none"]]
    /\ session = [s \in Sessions |-> NoSession]
    /\ comment = [c \in Comments |-> NoComment]
    /\ notes = EmptyBag
    /\ req = [u \in Users |-> Idle]
    /\ requests = 0
    /\ faults = 0

\* A request of u begins: it has read what lets it go on, and does r next.
Begin(u, r) ==
    /\ req[u].pc \in {"idle", "told"} /\ requests < MaxRequests
    /\ requests' = requests + 1
    /\ req' = [req EXCEPT ![u] = r]
At(u, pc) == req[u].pc = pc /\ UNCHANGED requests
Done(u) == req' = [req EXCEPT ![u] = Idle]
Then(u, pc) == req' = [req EXCEPT ![u].pc = pc]
Fault == faults < MaxFaults /\ faults' = faults + 1

-----------------------------------------------------------------------------
(* Teams and their members. *)

\* The team and its owner are two statements.
CreateTeam(u, t) ==
    /\ team[t] = NoTeam
    /\ team' = [team EXCEPT ![t] = [exists |-> TRUE, creator |-> u]]
    /\ Begin(u, [pc |-> "own", t |-> t])
    /\ UNCHANGED <<role, session, comment, notes, faults>>

BecomeOwner(u) ==
    /\ At(u, "own") /\ Done(u)
    /\ role' = [role EXCEPT ![req[u].t][u] = "owner"]
    /\ UNCHANGED <<team, session, comment, notes, faults>>

\* Three requests of an admin about a member; anybody may leave by himself.
AskMember(u, t, v, act, r) ==
    /\ team[t].exists
    /\ role[t][u] \in Admins \/ (act = "remove" /\ u = v)
    /\ Begin(u, [pc |-> IF act = "invite" THEN "invite" ELSE "target",
                 t |-> t, v |-> v, act |-> act, r |-> r])
    /\ UNCHANGED <<team, role, session, comment, notes, faults>>

\* The role of the member is read, and an owner is left alone.
CheckTarget(u) ==
    /\ At(u, "target")
    /\ IF role[req[u].t][req[u].v] = "owner" THEN Done(u) ELSE Then(u, req[u].act)
    /\ UNCHANGED <<team, role, session, comment, notes, faults>>

\* An invitation is an upsert; its role is never "owner".
InviteMember(u) ==
    /\ At(u, "invite") /\ Done(u)
    /\ role' = IF team[req[u].t].exists
               THEN [role EXCEPT ![req[u].t][req[u].v] = req[u].r] ELSE role
    /\ UNCHANGED <<team, session, comment, notes, faults>>

\* An update and a delete of a row that may be gone.
ChangeRole(u) ==
    /\ At(u, "change") /\ Done(u)
    /\ role' = IF role[req[u].t][req[u].v] # "none"
               THEN [role EXCEPT ![req[u].t][req[u].v] = req[u].r] ELSE role
    /\ UNCHANGED <<team, session, comment, notes, faults>>

RemoveMember(u) ==
    /\ At(u, "remove") /\ Done(u)
    /\ role' = [role EXCEPT ![req[u].t][req[u].v] = "none"]
    /\ UNCHANGED <<team, session, comment, notes, faults>>

\* Members, shares and pins go with the team.  (Rows of other tables may refuse
\* the delete: see DatabaseSchema.)
DeleteTeam(u, t) ==
    /\ team[t].exists /\ role[t][u] = "owner"
    /\ Begin(u, Idle)
    /\ team' = [team EXCEPT ![t].exists = FALSE]
    /\ role' = [role EXCEPT ![t] = [v \in Users |-> "none"]]
    /\ session' = [s \in Sessions |-> [session[s] EXCEPT
         !.teams = @ \ {t}, !.pins = {p \in @ : p[2] # t}]]
    /\ UNCHANGED <<comment, notes, faults>>

-----------------------------------------------------------------------------
(* Sessions. *)

CreateSession(u, s) ==
    /\ session[s] = NoSession /\ Begin(u, Idle)
    /\ session' = [session EXCEPT ![s] = [NoSession EXCEPT !.exists = TRUE, !.owner = u]]
    /\ UNCHANGED <<team, role, comment, notes, faults>>

MayFork(u, s) ==
    /\ session[s].exists
    /\ \/ session[s].owner = u \/ session[s].visibility = "public"
       \/ session[s].visibility = "team" /\ \E t \in session[s].teams : role[t][u] # "none"
ForkSession(u, s, copy) ==
    /\ MayFork(u, s) /\ CreateSession(u, copy)

\* PATCH and the public link, by the owner; a session deleted meanwhile is not
\* updated, and the request fails.
UpdateSession(u, s) ==
    /\ session[s].exists /\ session[s].owner = u /\ Begin(u, Idle)
    /\ \E v \in {"private", "team", "public"}, p \in BOOLEAN :
         session' = [session EXCEPT ![s].visibility = v, ![s].public = p]
    /\ UNCHANGED <<team, role, comment, notes, faults>>

Gone(c) == [NoComment EXCEPT !.author = comment[c].author]
Of(s) == {c \in Comments : comment[c].exists /\ comment[c].session = s}
Replies(c) == {d \in Comments : comment[d].exists /\ comment[d].parent = c}

\* The comments go with the session, unless a comment of another session is a
\* reply to one of them: that foreign key has no cascade.
DeleteSession(u, s) ==
    /\ session[s].exists /\ session[s].owner = u /\ Begin(u, Idle)
    /\ IF \A c \in Of(s) : Replies(c) \subseteq Of(s)
       THEN /\ session' = [session EXCEPT ![s] = [NoSession EXCEPT !.owner = u]]
            /\ comment' = [c \in Comments |-> IF c \in Of(s) THEN Gone(c) ELSE comment[c]]
       ELSE UNCHANGED <<session, comment>>
    /\ UNCHANGED <<team, role, notes, faults>>

Subscribe(u, s) ==
    /\ session[s].exists /\ Begin(u, Idle)
    /\ \/ session' = [session EXCEPT ![s].subscribers = @ \cup {u}]
       \/ session' = [session EXCEPT ![s].subscribers = @ \ {u}]
    /\ UNCHANGED <<team, role, comment, notes, faults>>

Pin(u, s, t) ==
    /\ session[s].exists /\ role[t][u] \in Admins \cup {"member"} /\ Begin(u, Idle)
    /\ \/ session' = [session EXCEPT ![s].pins = @ \cup {<<u, t>>}]
       \/ session' = [session EXCEPT ![s].pins = @ \ {<<u, t>>}]
    /\ UNCHANGED <<team, role, comment, notes, faults>>

\* Sharing: the link, then the visibility, then a word to every member.
ShareToTeam(u, s, t) ==
    /\ session[s].exists /\ session[s].owner = u
    /\ role[t][u] \in Admins \cup {"member"}
    /\ Begin(u, [pc |-> "share", s |-> s, t |-> t])
    /\ UNCHANGED <<team, role, session, comment, notes, faults>>

LinkToTeam(u) ==
    /\ At(u, "share")
    /\ IF session[req[u].s].exists /\ team[req[u].t].exists
       THEN /\ session' = [session EXCEPT ![req[u].s].teams = @ \cup {req[u].t}]
            /\ Then(u, "visible")
       ELSE Done(u) /\ UNCHANGED session
    /\ UNCHANGED <<team, role, comment, notes, faults>>

MakeVisible(u) ==
    /\ At(u, "visible") /\ Then(u, "members")
    /\ session' = IF session[req[u].s].exists
                  THEN [session EXCEPT ![req[u].s].visibility = "team"] ELSE session
    /\ UNCHANGED <<team, role, comment, notes, faults>>

ListMembers(u) ==
    /\ At(u, "members")
    /\ req' = [req EXCEPT ![u] = [pc |-> "shared", s |-> req[u].s,
         left |-> {v \in Users : role[req[u].t][v] # "none"} \ {u}]]
    /\ UNCHANGED <<team, role, session, comment, notes, faults>>

Told(v, kind, about) == notes' = notes (+) SetToBag({[to |-> v, kind |-> kind, about |-> about]})

TellMember(u) ==
    /\ At(u, "shared")
    /\ \/ req[u].left = {} /\ Done(u) /\ UNCHANGED notes
       \/ \E v \in req[u].left :
            /\ Told(v, "shared_session", req[u].s)
            /\ req' = [req EXCEPT ![u].left = @ \ {v}]
    /\ UNCHANGED <<team, role, session, comment, faults>>

\* By the owner, or by an admin of the team.  The visibility stays.
UnshareFromTeam(u, s, t) ==
    /\ session[s].exists
    /\ session[s].owner = u \/ role[t][u] \in Admins
    /\ Begin(u, Idle)
    /\ session' = [session EXCEPT ![s].teams = @ \ {t}]
    /\ UNCHANGED <<team, role, comment, notes, faults>>

-----------------------------------------------------------------------------
(* Comments. *)

CommentOn(u, s, c, mentions, parent) ==
    /\ session[s].exists /\ comment[c] = NoComment
    /\ \A v \in Users : req[v].pc = "insert" => req[v].c # c
    /\ Begin(u, [pc |-> "insert", s |-> s, c |-> c, mentions |-> mentions, parent |-> parent,
                 left |-> {}, whole |-> TRUE, subscribers |-> {}])
    /\ UNCHANGED <<team, role, session, comment, notes, faults>>

\* The session and the comment that is replied to must still be there.
InsertComment(u) ==
    LET r == req[u]
    IN /\ At(u, "insert")
       /\ IF session[r.s].exists /\ (r.parent = NoOne \/ comment[r.parent].exists)
          THEN /\ \E kind \in {"no", "pending"} : comment' = [comment EXCEPT ![r.c] =
                    [exists |-> TRUE, session |-> r.s, author |-> u, parent |-> r.parent,
                     suggestion |-> kind, reactions |-> {}]]
               /\ req' = [req EXCEPT ![u].pc = "mentions", ![u].left = r.mentions \ {u}]
          ELSE Done(u) /\ UNCHANGED comment
       /\ UNCHANGED <<team, role, session, notes, faults>>

\* A word to everybody in left, each with a try of its own.
TellMentioned(u) ==
    /\ At(u, "mentions")
    /\ \/ req[u].left = {} /\ Then(u, "reply") /\ UNCHANGED <<notes, faults>>
       \/ \E v \in req[u].left :
            \/ /\ Told(v, "mention", req[u].c) /\ UNCHANGED faults
               /\ req' = [req EXCEPT ![u].left = @ \ {v}]
            \/ /\ Fault /\ UNCHANGED notes
               /\ req' = [req EXCEPT ![u].left = @ \ {v}, ![u].whole = FALSE]
    /\ UNCHANGED <<team, role, session, comment>>

\* The author of the comment that is replied to, if it is still there.
TellParent(u) ==
    LET p == req[u].parent
    IN /\ At(u, "reply")
       /\ \/ /\ Then(u, "list") /\ UNCHANGED faults
             /\ IF p # NoOne /\ comment[p].exists /\ comment[p].author # u
                THEN Told(comment[p].author, "reply", req[u].c) ELSE UNCHANGED notes
          \/ /\ p # NoOne /\ Fault /\ UNCHANGED notes
             /\ req' = [req EXCEPT ![u].pc = "list", ![u].whole = FALSE]
       /\ UNCHANGED <<team, role, session, comment>>

\* MUTANT: the subscribers are all told, mentioned before or not.
EverySubscriber(u, subscribers) == subscribers \ {u}
\* Whoever was mentioned knows already.
SubscribersToTell(u, subscribers) == (subscribers \ {u}) \ req[u].mentions

ListSubscribers(u) ==
    /\ At(u, "list")
    /\ LET subscribers == session[req[u].s].subscribers
       IN req' = [req EXCEPT ![u].pc = "subscribers", ![u].subscribers = subscribers,
                             ![u].left = SubscribersToTell(u, subscribers)]
    /\ UNCHANGED <<team, role, session, comment, notes, faults>>

\* One try for all of them: after a failure nobody else is told.
TellSubscriber(u) ==
    /\ At(u, "subscribers")
    /\ \/ req[u].left = {} /\ Then(u, "told") /\ UNCHANGED <<notes, faults>>
       \/ \E v \in req[u].left :
            /\ Told(v, "new_comment", req[u].c) /\ UNCHANGED faults
            /\ req' = [req EXCEPT ![u].left = @ \ {v}]
       \/ /\ req[u].left # {} /\ Fault /\ UNCHANGED notes
          /\ req' = [req EXCEPT ![u].pc = "told", ![u].left = {}, ![u].whole = FALSE]
    /\ UNCHANGED <<team, role, session, comment>>

\* A comment with replies cannot be deleted: the foreign key refuses.
DeleteComment(u, c) ==
    /\ comment[c].exists /\ comment[c].author = u /\ Begin(u, Idle)
    /\ comment' = IF Replies(c) = {} THEN [comment EXCEPT ![c] = Gone(c)] ELSE comment
    /\ UNCHANGED <<team, role, session, notes, faults>>

ToggleReaction(u, c) ==
    /\ comment[c].exists /\ Begin(u, Idle)
    /\ comment' = [comment EXCEPT ![c].reactions = IF u \in @ THEN @ \ {u} ELSE @ \cup {u}]
    /\ UNCHANGED <<team, role, session, notes, faults>>

\* Only the owner of the session settles a suggestion, and may change his mind.
ResolveSuggestion(u, c) ==
    /\ comment[c].exists /\ comment[c].suggestion # "no"
    /\ session[comment[c].session].owner = u /\ Begin(u, Idle)
    /\ \E status \in {"accepted", "rejected"} :
         comment' = [comment EXCEPT ![c].suggestion = status]
    /\ UNCHANGED <<team, role, session, notes, faults>>

-----------------------------------------------------------------------------

\* A statement fails, or the process dies: what was written stays.
RequestFails(u) ==
    /\ req[u].pc \in {"own", "target", "invite", "change", "remove", "share", "visible",
                      "members", "shared", "insert"}
    /\ Fault /\ Done(u)
    /\ UNCHANGED <<team, role, session, comment, notes, requests>>

TeamRequest(u) ==
    \/ \E t \in Teams :
         \/ CreateTeam(u, t) \/ DeleteTeam(u, t)
         \/ \E v \in Users :
              \/ AskMember(u, t, v, "remove", "none")
              \/ \E r \in {"member", "admin"}, act \in {"invite", "change"} :
                   AskMember(u, t, v, act, r)
    \/ BecomeOwner(u) \/ CheckTarget(u) \/ InviteMember(u) \/ ChangeRole(u) \/ RemoveMember(u)

SessionRequest(u) ==
    \/ \E s \in Sessions :
         \/ CreateSession(u, s) \/ UpdateSession(u, s) \/ DeleteSession(u, s) \/ Subscribe(u, s)
         \/ \E copy \in Sessions : ForkSession(u, s, copy)
         \/ \E t \in Teams : Pin(u, s, t) \/ ShareToTeam(u, s, t) \/ UnshareFromTeam(u, s, t)
    \/ LinkToTeam(u) \/ MakeVisible(u) \/ ListMembers(u) \/ TellMember(u)

CommentRequest(u) ==
    \/ \E c \in Comments :
         \/ \E s \in Sessions, mentions \in SUBSET Users,
              parent \in {NoOne} \cup {d \in Comments : comment[d].exists} :
                CommentOn(u, s, c, mentions, parent)
         \/ DeleteComment(u, c) \/ ToggleReaction(u, c) \/ ResolveSuggestion(u, c)
    \/ InsertComment(u) \/ TellMentioned(u) \/ TellParent(u)
    \/ ListSubscribers(u) \/ TellSubscriber(u)

Next ==
    \E u \in Users :
        TeamRequest(u) \/ SessionRequest(u) \/ CommentRequest(u) \/ RequestFails(u)

Spec == Init /\ [][Next]_collabVars

-----------------------------------------------------------------------------
(* What must hold. *)

TypeOK ==
    /\ team \in [Teams -> [exists : BOOLEAN, creator : Users \cup {NoOne}]]
    /\ role \in [Teams -> [Users -> Roles]]
    /\ \A s \in Sessions :
         /\ session[s].visibility \in {"private", "team", "public"}
         /\ session[s].subscribers \subseteq Users
         /\ session[s].pins \subseteq Users \X Teams
         /\ \A t \in session[s].teams : session[s].exists /\ team[t].exists
    /\ \A c \in Comments : comment[c].exists =>
         session[comment[c].session].exists /\ comment[c].author \in Users
    /\ IsABag(notes)
    /\ requests \in 0..MaxRequests
    /\ faults \in 0..MaxFaults

\* Who should hear of a comment, and how: the people it mentions, the author of
\* the comment it replies to, and the subscribers who were not mentioned.
Audience(u) ==
    LET r == req[u]
        note(v, kind) == [to |-> v, kind |-> kind, about |-> r.c]
    IN {note(v, "mention") : v \in r.mentions \ {u}}
       \cup (IF r.parent # NoOne /\ comment[r.parent].author # u
             THEN {note(comment[r.parent].author, "reply")} ELSE {})
       \cup {note(v, "new_comment") : v \in r.subscribers \ (r.mentions \cup {u})}

\* When a comment was stored and nothing failed, everybody it concerns was told once for
\* each reason, and nobody else, while other users comment, subscribe and delete: once
\* because mentioned or subscribed, never for both, and once more as the author of the
\* comment that is replied to, who is always found, as a reply keeps its parent from
\* being deleted.  So a person hears at most twice, and then once of the reply.  (As long
\* as the comment itself is there.)
EachReasonIsToldOnce ==
    \A u \in Users :
        /\ req[u].pc = "told" /\ req[u].whole
        /\ comment[req[u].c].exists /\ comment[req[u].c].author = u
        /\ comment[req[u].c].parent = req[u].parent
        => /\ {n \in BagToSet(notes) : n.about = req[u].c} = Audience(u)
           /\ \A n \in Audience(u) : notes[n] = 1
           /\ \A m, n \in Audience(u) : m.to = n.to /\ m # n => "reply" \in {m.kind, n.kind}
=============================================================================
