CONSTANT MaxDeltas = 2
SPECIFICATION Spec
INVARIANTS NoReplyInsideAReply ToldWhatWasCommitted EveryReplyEnds
