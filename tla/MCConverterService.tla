------------------------- MODULE MCConverterService -------------------------
EXTENDS ConverterService

\* Two deliveries offer four videos to a queue of two and one worker.
MCOneBatch    == [b1 |-> <<"video", "skipped", "video">>]
MCTwice       == [b1 |-> 2]

\* Three videos overfill a queue of one; the other batch is sent again, also
\* after a crash, and carries a validation before its video.
MCTwoBatches  == [b1 |-> <<"skipped", "video", "video", "video">>,
                  b2 |-> <<"validation", "video">>]
MCOnceTwice   == [b1 |-> 1, b2 |-> 2]
============================================================================
