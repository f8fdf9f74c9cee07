---------------------------- MODULE PageReading ----------------------------
(* facebook/*_script.py, permalink.py and core/dedupe.py: what the scripts  *)
(* make of one element of a page, and the keys an item is known by.  Posts  *)
(* and comments are numbers, 0 for none.                                    *)
(*                                                                          *)
(* A post's element is                                                      *)
(*   [item, message, snippets, inner, author, trail, article, sortbar,      *)
(*    links]: which sources of text it has, whether an author is shown, a   *)
(*   trail of comment buttons, the sort control itself, and its anchors     *)
(*   [route, group, post, comment, upper, hover].                           *)
(* A comment's element is                                                   *)
(*   [item, body, inner, author, parent, root]: "parent" is the post its    *)
(*   anchor names, "root" where it hangs.                                   *)
EXTENDS Integers, Sequences, FiniteSets

NoItem == [post |-> 0, link |-> 0, author |-> FALSE, comment |-> 0]

\* Sources of a permalink, the most trusted first.
RoutePriority == <<"posts", "permalink", "php", "query", "pcb", "photo">>
PriorityOf(route) == CHOOSE i \in 1..Len(RoutePriority) : RoutePriority[i] = route

\* The post of this group that an anchor names, whatever its route.
CanonicalLink(anchor) ==
    IF /\ \E i \in 1..Len(RoutePriority) : RoutePriority[i] = anchor.route
       /\ anchor.group = "ours"
    THEN anchor.post ELSE 0

\* Anchors of the post come before those of its comments, then by source.
BetterLink(a, b) ==
    \/ ~a.comment /\ b.comment
    \/ a.comment = b.comment /\ PriorityOf(a.route) <= PriorityOf(b.route)

\* A container that is no article is searched in its upper part first, and then
\* as a whole.
Permalink(element, links) ==
    LET named == {a \in links : CanonicalLink(a) # 0}
        upper == {a \in named : a.upper \/ element.article}
        pool == IF upper # {} THEN upper ELSE named
    IN  IF pool = {} THEN 0
        ELSE CanonicalLink(CHOOSE a \in pool : \A b \in pool : BetterLink(a, b))

\* Anchors that may be a timestamp whose link is filled in when it is hovered.
WarmupAnchors(element) == {a \in element.links : a.upper /\ a.route # "user"}
Warmed(element) ==
    {IF a \in WarmupAnchors(element) /\ a.hover # 0
     THEN [a EXCEPT !.route = "posts", !.group = "ours", !.post = a.hover] ELSE a :
        a \in element.links}

PostLink(element) ==
    IF Permalink(element, element.links) # 0 THEN Permalink(element, element.links)
    ELSE Permalink(element, Warmed(element))

PostText(element) ==
    IF element.message THEN "primary"
    ELSE IF element.snippets THEN "fallback"
    ELSE IF element.inner THEN "container" ELSE "none"

HasCommentLink(element) == \E a \in element.links : a.comment

\* The filters of the feed script, in its order.
ReadPost(element) ==
    LET link == PostLink(element)
    IN  IF \/ PostText(element) = "none"
           \/ ~element.message /\ (link = 0 \/ HasCommentLink(element))
           \/ element.sortbar
           \/ PostText(element) # "primary" /\ element.article /\ element.trail
        THEN NoItem
        ELSE [post |-> element.item, link |-> link, author |-> element.author, comment |-> 0]

\* A comment belongs to the target when its anchor names the post, or names none
\* and what it hangs in, or the page, does.
InScope(element, page) ==
    IF element.parent # 0 THEN element.parent = page.target
    ELSE page.holds[element.root] \/ page.route = page.target

CommentText(element) ==
    IF element.body THEN "comment" ELSE IF element.inner THEN "container" ELSE "none"

\* Dialogs with the post's link are searched before other dialogs, and the
\* document only when there is no dialog.
SearchRoots(page) ==
    LET dialogs == page.roots \ {"document"}
        targets == {r \in dialogs : page.holds[r]}
    IN  IF targets # {} THEN targets ELSE IF dialogs # {} THEN dialogs ELSE {"document"}

ReadComment(element, page) ==
    IF \/ element.root \notin SearchRoots(page)
       \/ ~InScope(element, page)
       \/ CommentText(element) = "none"
    THEN NoItem
    ELSE [post |-> element.item, link |-> element.item, author |-> element.author,
          comment |-> element.item]
-----------------------------------------------------------------------------
(* Keys, the primary one first. *)

CompositeKey(item) == <<IF item.author THEN "author-text" ELSE "text", item.post>>

PostKeys(item) ==
    IF item.link # 0
    THEN <<<<"id", item.link>>, <<"url", item.link>>, CompositeKey(item)>>
    ELSE <<CompositeKey(item), <<"fingerprint", item.post>>>>

CommentKeys(item) ==
    <<<<"comment", item.comment>>, <<"comment-url", item.comment>>, CompositeKey(item)>>

ItemKeys(item) == IF item.comment # 0 THEN CommentKeys(item) ELSE PostKeys(item)
=============================================================================
