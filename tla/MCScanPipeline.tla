--------------------------- MODULE MCScanPipeline ---------------------------
(* Four items, one of which may be pinned.  Post 2 is shown with its link, or *)
(* without one; in post 3 no text is found, and comment 3 belongs to another  *)
(* post.  One configuration scrolls and stops at two known posts, the other   *)
(* takes the page as it is.                                                   *)
EXTENDS ScanPipeline

Anchor(route, post) ==
    [route |-> route, group |-> "ours", post |-> post, comment |-> FALSE,
     upper |-> TRUE, hover |-> 0]
Look(item, links) ==
    [item |-> item, message |-> TRUE, snippets |-> FALSE, inner |-> FALSE, author |-> TRUE,
     trail |-> FALSE, article |-> TRUE, sortbar |-> FALSE, links |-> links]
\* A photo of the post, the link of one of its comments, a link of another group.
Busy(item) ==
    {Anchor("photo", item), [Anchor("php", item) EXCEPT !.comment = TRUE],
     [Anchor("posts", 1) EXCEPT !.group = "other"]}
Hovered(item) == [Anchor("other", 0) EXCEPT !.hover = item]
Reply(item, parent, root) ==
    [item |-> item, body |-> TRUE, inner |-> TRUE, author |-> TRUE, parent |-> parent,
     root |-> root]

MCLooksOf ==
    [posts |-> <<{Look(1, Busy(1))},
                 {Look(2, {Anchor("posts", 2)}), Look(2, {})},
                 {[Look(3, {Anchor("posts", 3)}) EXCEPT !.message = FALSE]},
                 {Look(4, {Hovered(4)})}>>,
     comments |-> <<{Reply(1, 1, "dialog")}, {Reply(2, 0, "dialog")},
                    {Reply(3, 2, "dialog")}, {Reply(4, 1, "dialog")}>>]
MCCommentPage ==
    [target |-> 1, route |-> 1, roots |-> {"dialog", "document"},
     holds |-> [dialog |-> TRUE, document |-> TRUE]]

MCTextOf == <<<<"sale", "no">>, <<"old", "sale", "no">>, <<"no">>, <<"sale">>>>
MCKeywords == [groups |-> {{{<<"sale">>}, {<<"no">>}}, {}}, exclude |-> {{<<"no">>}},
               ignore |-> {<<"old", "sale", "no">>, <<"sale">>}]
MCConfigs ==
    {[target |-> 3, rounds |-> 1, more |-> TRUE, sort |-> TRUE, keywords |-> MCKeywords],
     [target |-> 2, rounds |-> 1, more |-> FALSE, sort |-> FALSE,
      keywords |-> [MCKeywords EXCEPT !.exclude = {}]]}
=============================================================================
