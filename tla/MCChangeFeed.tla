---------------------------- MODULE MCChangeFeed ----------------------------
(* Small instances of ChangeFeed.  The two kinds of consumer read the feed and
   nothing of each other, so a behaviour has one of them: a page of the pull
   consumer needs three rows, one of them filtered, for each case of its next
   cursor; webhooks are delivered to with two writes, both wanted or one not. *)
EXTENDS ChangeFeed, TLC

VARIABLE focus

\* The writers of a behaviour, by its consumer.
Writing == [pull |-> Writer, push |-> Writer \ Unwanted, filtered |-> Unwanted \cup {CHOOSE w \in Writer : w \notin Unwanted}]

MCInit == Init /\ focus \in DOMAIN Writing

MCNext ==
    /\ Next /\ UNCHANGED focus
    /\ \A w \in Writer \ Writing[focus] : tx'[w] = tx[w]
    /\ IF focus = "pull" THEN UNCHANGED hook ELSE UNCHANGED pullVars

MCSpec == MCInit /\ [][MCNext]_<<vars, focus>> /\ Fairness
=============================================================================
