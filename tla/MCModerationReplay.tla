------------------------- MODULE MCModerationReplay -------------------------
EXTENDS ModerationReplay, TLC

CONSTANTS owner, stranger, soup, Authors, FinalityInProfile

MCPolicy == [enabled |-> TRUE, finality |-> FinalityInProfile, confirmations |-> 2, flags |-> 2]

\* An update lowers the flag threshold or turns finality on.
MCUpdates == [kind : {"PolicyUpdated"}, author : Authors, flags : {1},
              confirmations : {0}, finality : {{}}]
             \cup [kind : {"PolicyUpdated"}, author : Seeds, flags : {0},
                   confirmations : {1}, finality : {{TRUE}}]

\* Everybody adds the stranger and removes anybody.
MCRoles == [kind : {"ModeratorAdded"}, author : Authors, target : {stranger}]
           \cup [kind : {"ModeratorRemoved"}, author : Authors, target : Authors]

\* The stranger hides, pins and flags, the owner hides and unhides.
MCObjects == [kind : {"ContentHidden", "ContentFlagged", "CoreTopicPinned"}, author : {stranger}, object : {soup}]
             \cup [kind : {"ContentHidden", "ContentUnhidden"}, author : Seeds, object : {soup}]

MCOffered == MCRoles \cup MCObjects \cup MCUpdates
=============================================================================
