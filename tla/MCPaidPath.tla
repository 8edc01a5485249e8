----------------------------- MODULE MCPaidPath -----------------------------
(* Instances of PaidPath for TLC. *)
EXTENDS PaidPath, Sequences, TLC

CONSTANTS n1, n2, n3, shop, thief

MCPayment == [payee |-> shop, cap |-> 2]

Terms1(payee, amount) == [payee |-> payee, amount |-> amount]
Header(resource, accepts, signIn) ==
  [resource |-> resource, accepts |-> accepts, canonical |-> TRUE, signIn |-> signIn]
Response(status, header, cors) == [status |-> status, header |-> header, cors |-> cors]

(* The contracted terms beside others, the same for whoever signs in, a    *)
(* price above the cap, two that fit, another resource, no challenge at    *)
(* all, a redirect and an answer.                                          *)
MCResponses ==
  {Response(402, Header(Url, <<Terms1(thief, 1), Terms1(shop, 2)>>, FALSE), TRUE),
   Response(402, Header(Url, <<Terms1(shop, 2), Terms1(thief, 1)>>, TRUE), TRUE),
   Response(402, Header(Url, <<Terms1(shop, 3)>>, FALSE), TRUE),
   Response(402, Header(Url, <<Terms1(shop, 1), Terms1(shop, 1)>>, FALSE), TRUE),
   Response(402, Header(PollUrl, <<Terms1(shop, 1)>>, FALSE), TRUE),
   Response(402, None, TRUE),
   Response(303, None, FALSE),
   Response(200, None, TRUE)}
=============================================================================
