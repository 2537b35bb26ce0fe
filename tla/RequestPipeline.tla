-------------------------- MODULE RequestPipeline --------------------------
(***************************************************************************)
(* One request from a client to a handler and its answer back: the agent   *)
(* compresses, signs and encrypts (internal/agent/agent.go, sendMetrics),  *)
(* the server decrypts, verifies, decompresses and, on the way back,       *)
(* compresses and signs (internal/middleware, internal/cryptoutil).  Each  *)
(* side is configured on its own, and the connection may break in the      *)
(* middle of the body.  A request is a post of JSON or a get.              *)
(*                                                                         *)
(* Data abstraction.  A body is a sequence of cells: a JSON text ends with *)
(* its closing bracket, a gzip stream has a header and a trailer around    *)
(* the data, a block of RSA-OAEP is KeySize cells that name their key and  *)
(* the chunk that is inside.  An HMAC is the pair of its key and its text. *)
(***************************************************************************)
EXTENDS Naturals, Sequences, SequencesExt, FiniteSetsExt

CONSTANTS
    HashKeys,    \* keys of HMAC-SHA256
    CryptoKeys,  \* pairs of RSA keys, named by one name
    NoKey,       \* the option is not set
    KeySize,     \* key.Size()
    Overhead,    \* 2*sha256.Size + 2: 66
    MaxLen       \* bound: cells of a payload

ASSUME PipelineAssumption ==
    /\ NoKey \notin HashKeys \cup CryptoKeys
    /\ Overhead \in Nat /\ KeySize \in Nat /\ KeySize > Overhead
    /\ MaxLen \in Nat

VARIABLES
    client,   \* post or get, compress, its hash key, the public key it encrypts with
    server,   \* its hash key and its private key
    payload,  \* what the client wants to send
    accept,   \* Accept-Encoding names gzip
    stage,    \* where the request is
    request,  \* body and headers as the next stage finds them
    seen,     \* what the handler has decoded
    output,   \* what a handler or a refusal writes: type, status, body
    response  \* status, body and headers as written so far

vars == <<client, server, payload, accept, stage, request, seen, output, response>>

NoHash == <<>>
Sum(body, key) == <<key, body>>

----------------------------------------------------------------------------
(* Encodings.                                                              *)

Data(i) == <<"data", i>>
End(n) == <<"end", n>>
Payloads == {[i \in 1..n |-> IF i = n THEN End(n) ELSE Data(i)] : n \in 0..MaxLen}

\* json.Decoder.Decode reads up to the end of the first value, <<>> is an error.
DecodeJSON(body) ==
    LET ends == {i \in 1..Len(body) : body[i][1] = "end"} IN
    IF ends = {} THEN <<>> ELSE SubSeq(body, 1, Min(ends))

GzipHeader == <<"gzip", 1>>
GzipTrailer == <<"gzip", 2>>
Gzip(body) == <<GzipHeader>> \o body \o <<GzipTrailer>>

\* gzip.NewReader reads the header at once and the data when it is asked to;
\* a stream that breaks off has no trailer.
HasGzipHeader(body) == body # <<>> /\ body[1] = GzipHeader
HasGzipTrailer(body) == body # <<>> /\ body[Len(body)] = GzipTrailer
Inflate(body) ==
    SubSeq(body, 2, IF HasGzipTrailer(body) THEN Len(body) - 1 ELSE Len(body))

PlainSize == KeySize - Overhead

\* Faulty variants of the definitions below end in _...: each is a slip the
\* properties must detect.  Here: a short last block is left out.
BlockCount_Floor(data) == Len(data) \div PlainSize

BlockCount(data) == (Len(data) + PlainSize - 1) \div PlainSize

Chunk(data, b) ==
    SubSeq(data, (b - 1) * PlainSize + 1, Min({b * PlainSize, Len(data)}))

Block(chunk, key) == [i \in 1..KeySize |-> <<"rsa", key, chunk, i>>]

Encrypt(data, key) ==
    FlattenSeq([b \in 1..BlockCount(data) |-> Block(Chunk(data, b), key)])

\* DecryptOAEP fails unless a block is one that was encrypted for this key.
Opens(block, key) ==
    /\ Len(block[1]) = 4
    /\ block = Block(block[1][3], key)

CipherBlock(data, b) == SubSeq(data, (b - 1) * KeySize + 1, b * KeySize)

Decryptable(data, key) ==
    /\ Len(data) % KeySize = 0
    /\ \A b \in 1..(Len(data) \div KeySize) : Opens(CipherBlock(data, b), key)

Decrypt(data, key) ==
    FlattenSeq([b \in 1..(Len(data) \div KeySize) |-> CipherBlock(data, b)[1][3]])

----------------------------------------------------------------------------
(* The client.                                                             *)

Posts == [post : {TRUE}, compress : BOOLEAN, key : HashKeys \cup {NoKey},
          public : CryptoKeys \cup {NoKey}]
Get == [post |-> FALSE, compress |-> FALSE, key |-> NoKey, public |-> NoKey]
Servers == [key : HashKeys \cup {NoKey}, private : CryptoKeys \cup {NoKey}]

NoRequest == [body |-> <<>>, cut |-> FALSE, gzip |-> FALSE, rsa |-> FALSE, hash |-> NoHash]
NoResponse == [status |-> 0, body |-> <<>>, gzip |-> FALSE, hash |-> NoHash]
NoOutput == [type |-> "none", status |-> 0, body |-> <<>>]

Init ==
    /\ \/ client \in Posts /\ payload \in Payloads
       \/ client = Get /\ payload = <<>>
    /\ server \in Servers
    /\ accept \in BOOLEAN
    /\ stage = "client"
    /\ request = NoRequest /\ response = NoResponse
    /\ seen = <<>> /\ output = NoOutput

\* sendMetrics; the agent always compresses, the API also takes plain bodies.
\* The signature covers the compressed body before it is encrypted.
Send ==
    /\ stage = "client"
    /\ LET compressed == IF client.compress THEN Gzip(payload) ELSE payload
           sent == IF client.public = NoKey THEN compressed
                   ELSE Encrypt(compressed, client.public)
       IN
       \E n \in 0..Len(sent) :
          request' = [body |-> SubSeq(sent, 1, n), cut |-> n < Len(sent),
                      gzip |-> client.compress, rsa |-> client.public # NoKey,
                      hash |-> IF client.key = NoKey THEN NoHash
                               ELSE Sum(compressed, client.key)]
    /\ stage' = "decrypt"
    /\ UNCHANGED <<client, server, payload, accept, seen, output, response>>

----------------------------------------------------------------------------
(* The middleware on the way in.                                           *)

ErrorBody == <<Data(0)>>

\* http.Error: a plain text, outside of the writers of the inner middleware.
Refuse ==
    /\ output' = [type |-> "text", status |-> 400, body |-> ErrorBody]
    /\ UNCHANGED <<client, server, payload, accept, request, seen>>

\* Decrypt: its refusals are not signed.
DecryptRequest ==
    /\ stage = "decrypt"
    /\ \/ /\ server.private = NoKey \/ ~request.rsa
          /\ stage' = "signature"
          /\ UNCHANGED <<client, server, payload, accept, request, seen, output, response>>
       \/ /\ server.private # NoKey /\ request.rsa
          /\ request.cut \/ ~Decryptable(request.body, server.private)
          /\ Refuse
          /\ response' = [NoResponse EXCEPT !.status = 400, !.body = ErrorBody]
          /\ stage' = "answered"
       \/ /\ server.private # NoKey /\ request.rsa
          /\ ~request.cut /\ Decryptable(request.body, server.private)
          /\ request' = [request EXCEPT !.body = Decrypt(@, server.private), !.rsa = FALSE]
          /\ stage' = "signature"
          /\ UNCHANGED <<client, server, payload, accept, seen, output, response>>

\* Faulty: a request without a signature is let through.
ValidHash_Optional == request.hash \in {NoHash, Sum(request.body, server.key)}

ValidHash == request.hash = Sum(request.body, server.key)

\* Signature, before next: without a key it is not there at all, and a get
\* has nothing to check.
Verified ==
    \/ server.key = NoKey \/ ~client.post
    \/ ~request.cut /\ ValidHash

VerifyRequest ==
    /\ stage = "signature"
    /\ \/ /\ Verified
          /\ stage' = "gzip"
          /\ UNCHANGED <<client, server, payload, accept, request, seen, output, response>>
       \/ /\ ~Verified
          /\ Refuse
          /\ response' = [NoResponse EXCEPT !.status = 400, !.body = ErrorBody,
                                            !.hash = Sum(ErrorBody, server.key)]
          /\ stage' = "answered"

\* Gzip, before next: an error goes around its own writer.
DecompressRequest ==
    /\ stage = "gzip"
    /\ IF request.gzip /\ ~HasGzipHeader(request.body)
       THEN /\ Refuse
            /\ response' = [NoResponse EXCEPT !.status = 400, !.body = ErrorBody]
            /\ stage' = "sign"
       ELSE /\ stage' = "handler"
            /\ UNCHANGED <<client, server, payload, accept, request, seen, output, response>>

----------------------------------------------------------------------------
(* The handler.                                                            *)

\* What a handler that accepts its input writes: JSON, a value, a page, a
\* status alone, JSON that cannot be encoded, or an error of the storage.
Outputs ==
    [type : {"json", "text", "html"}, status : {200}, body : {<<Data(1)>>}]
    \cup [type : {"json", "text", "none"}, status : {200}, body : {<<>>}]
    \cup [type : {"text"}, status : {404, 500}, body : {<<Data(1)>>}]

ReadBody == IF request.gzip THEN Inflate(request.body) ELSE request.body

\* The handlers of posts decode JSON; those of gets read no body.
Handle ==
    /\ stage = "handler"
    /\ seen' = DecodeJSON(ReadBody)
    /\ IF client.post /\ seen' = <<>>
       THEN output' = [type |-> "text", status |-> 400, body |-> ErrorBody]
       ELSE output' \in Outputs
    /\ stage' = "write"
    /\ UNCHANGED <<client, server, payload, accept, request, response>>

----------------------------------------------------------------------------
(* The writers on the way out: gzip around the recorder of Signature.      *)

ShouldCompress == accept /\ output.type \in {"json", "html"}

\* gzipResponseWriter.Write: the first write decides; without a write the
\* status is kept for Close.
WriteOutput ==
    /\ stage = "write"
    /\ response' =
          IF output.body = <<>> /\ accept THEN response
          ELSE [response EXCEPT
                  !.status = output.status,
                  !.gzip = ShouldCompress,
                  !.body = IF ShouldCompress THEN <<GzipHeader>> \o output.body
                           ELSE output.body]
    /\ stage' = "close"
    /\ UNCHANGED <<client, server, payload, accept, request, seen, output>>

\* Faulty: Close ends the stream only if something was written.
CloseGzip_WrittenOnly ==
    /\ stage = "close"
    /\ response' =
          IF response.status # 0
          THEN [response EXCEPT !.body = IF response.gzip THEN @ \o <<GzipTrailer>> ELSE @]
          ELSE [response EXCEPT !.status = output.status, !.gzip = ShouldCompress]
    /\ stage' = "sign"
    /\ UNCHANGED <<client, server, payload, accept, request, seen, output>>

\* gzipResponseWriter.Close: decides if nothing has, and ends the stream.
CloseGzip ==
    /\ stage = "close"
    /\ response' =
          IF response.status # 0
          THEN [response EXCEPT !.body = IF response.gzip THEN @ \o <<GzipTrailer>> ELSE @]
          ELSE [response EXCEPT
                  !.status = output.status,
                  !.gzip = ShouldCompress,
                  !.body = IF ShouldCompress THEN Gzip(<<>>) ELSE <<>>]
    /\ stage' = "sign"
    /\ UNCHANGED <<client, server, payload, accept, request, seen, output>>

\* WriteSigned, if there is a key: what the inner writers have written.
SignResponse ==
    /\ stage = "sign"
    /\ response' = [response EXCEPT
                      !.hash = IF server.key = NoKey THEN NoHash
                               ELSE Sum(response.body, server.key)]
    /\ stage' = "answered"
    /\ UNCHANGED <<client, server, payload, accept, request, seen, output>>

Answered == stage = "answered" /\ UNCHANGED vars

Next ==
    \/ Send
    \/ DecryptRequest \/ VerifyRequest \/ DecompressRequest
    \/ Handle
    \/ WriteOutput \/ CloseGzip \/ SignResponse
    \/ Answered

Spec == Init /\ [][Next]_vars

----------------------------------------------------------------------------
(* Properties.                                                             *)

\* Whatever the two configurations are and wherever the body breaks off, the
\* handler gets exactly what the client wanted to send, signed with the key of
\* the server if there is one, or the request is refused with 400: a part of a
\* batch, a wrong order of decryption, verification and decompression or a
\* lost block never reaches the storage.
ExactOrRefused ==
    stage = "answered" /\ client.post =>
        \/ seen = payload /\ (server.key # NoKey => client.key = server.key)
        \/ seen = <<>> /\ output.status = 400

\* The keys of the client fit those of the server.
Compatible ==
    /\ server.key # NoKey /\ client.post => client.key = server.key
    /\ client.public # NoKey => client.public = server.private

\* A request that arrives whole from a client whose keys fit is never refused:
\* the server undoes what the client did, for every length of the body, a
\* multiple of the block and a short last block alike (agent.go:382-413 against
\* main.go:114-116 and server.go:39-41).
CompatibleIsServed ==
    stage = "answered" /\ Compatible /\ ~request.cut =>
        IF client.post /\ payload # <<>> THEN seen = payload
        ELSE output.status = 400 <=> client.post

Decoded == IF response.gzip THEN Inflate(response.body) ELSE response.body

\* An answer arrives with the status and the content that were written, its
\* encoding is one the client takes and a complete stream, and a server with a
\* hash key has signed the bytes that it sends, the compressed ones, except for
\* what Decrypt refuses before Signature.
AnswerIsIntact ==
    stage = "answered" =>
        /\ response.status = output.status
        /\ Decoded = output.body
        /\ response.gzip => accept /\ response.body = Gzip(output.body)
        /\ response.hash # NoHash => response.hash = Sum(response.body, server.key)
        /\ server.key # NoKey /\ ~request.rsa => response.hash # NoHash

============================================================================
