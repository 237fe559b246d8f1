--------------------------- MODULE MCHttpSender ---------------------------
(* An instance of HttpSender for TLC: the mock receivers, on the host of the *)
(* service, and a customer's own destination that may do anything.           *)
EXTENDS HttpSender, TLC

CONSTANTS mocks, customer, metadata, public, other, private

MCMocks == {"always-200", "always-500", "slow-8s", "flaky-50", "redirect-to-metadata"}
MCUrls == MCMocks \cup {"customer", "metadata", "ftp", "bad"}
MCHostOf ==
  [u \in MCUrls |-> IF u \in MCMocks THEN mocks
                    ELSE IF u = "metadata" THEN metadata ELSE customer]
MCReceiverOf == [u \in MCUrls |-> u]
MCRegistered == MCMocks \cup {"customer"}
MCAnswers == {{public}, {public, other}, {public, private}, {private}, {}}
=============================================================================
