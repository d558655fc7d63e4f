--------------------------- MODULE LicenceExpression ---------------------------
(***************************************************************************)
(* How the licence expression a Cargo package declares is parsed           *)
(* (release-sbom.mjs) and judged (release-license-policy.mjs).             *)
(*                                                                         *)
(* An expression is a sequence of lexemes: parentheses, AND, OR, WITH,     *)
(* words, and Bad, a character no word may contain (the slash of the old   *)
(* form MIT/Apache-2.0).  The state holds the expression of one component, *)
(* which grows lexeme by lexeme, with what the two scripts make of it, up  *)
(* to MaxLexemes; an expression the parser has given up is not continued.  *)
(***************************************************************************)
EXTENDS Naturals, Sequences

LOCAL INSTANCE SequencesExt

CONSTANTS
    LICENSE_POLICY_ALLOWLIST,           \* identifiers the policy allows
    SPDX_LICENSE_IDENTIFIER_CATALOGUE,  \* identifiers SPDX knows, and any LicenseRef-
    SPDX_EXCEPTION_IDENTIFIER_CATALOGUE, \* exceptions SPDX knows
    Written,                            \* words the enumerated expressions use
    MaxLexemes                          \* bound on the length of an expression

Words == UNION {LICENSE_POLICY_ALLOWLIST, SPDX_LICENSE_IDENTIFIER_CATALOGUE,
                SPDX_EXCEPTION_IDENTIFIER_CATALOGUE, Written}
Bad == "/"
Lexemes == {"(", ")", "AND", "OR", "WITH"} \cup Written

ASSUME ExpressionAssumption ==
    /\ {"MIT", "Apache-2.0"} \subseteq LICENSE_POLICY_ALLOWLIST
    /\ LICENSE_POLICY_ALLOWLIST \subseteq SPDX_LICENSE_IDENTIFIER_CATALOGUE
    /\ Words \cap {"(", ")", "AND", "OR", "WITH", Bad, "none", "end"} = {}
    /\ MaxLexemes \in Nat

VARIABLES expression, parsed, verdict

vars == <<expression, parsed, verdict>>

(***************************************************************************)
(* The parser: recursive descent over the tokens.  parse[rule, i] is the   *)
(* tree a rule makes of the tokens from i on with the index after it, or a *)
(* failure; "ands" and "ors" are the operands the loops of parseAnd and    *)
(* parseOr collect.                                                        *)
(***************************************************************************)
License(identifier, exception) ==
    [kind |-> "license", identifier |-> identifier, exception |-> exception]
Binary(operator, left, right) ==
    [kind |-> "binary", operator |-> operator, left |-> left, right |-> right]

Failed == [ok |-> FALSE, tree |-> License("none", "none"), index |-> 0]
Parsed(tree, index) == [ok |-> TRUE, tree |-> tree, index |-> index]

tokenizeLicenseExpression(e) == [ok |-> e # << >> /\ \A i \in DOMAIN e : e[i] # Bad, tokens |-> e]

peek(t, i) == IF i \in DOMAIN t THEN t[i] ELSE "end"

parsePrimary_Unclosed(parse, t, i) ==
    IF peek(t, i) = "("
    THEN LET inner == parse["or", i + 1]
         IN  IF inner.ok /\ peek(t, inner.index) \in {")", "end"}
             THEN Parsed(inner.tree, inner.index + (IF peek(t, inner.index) = ")" THEN 1 ELSE 0))
             ELSE Failed
    ELSE IF peek(t, i) \in Words THEN Parsed(License(peek(t, i), "none"), i + 1) ELSE Failed
parsePrimary(parse, t, i) ==
    IF peek(t, i) = "("
    THEN LET inner == parse["or", i + 1]
         IN  IF inner.ok /\ peek(t, inner.index) = ")"
             THEN Parsed(inner.tree, inner.index + 1) ELSE Failed
    ELSE IF peek(t, i) \in Words THEN Parsed(License(peek(t, i), "none"), i + 1) ELSE Failed

(* WITH after anything whose tree is a single licence, a parenthesised one
   included; a second exception takes the place of the first.               *)
parseWith(parse, t, i) ==
    LET node == parse["primary", i]
    IN  IF ~node.ok \/ peek(t, node.index) # "WITH" THEN node
        ELSE IF node.tree.kind = "license" /\ peek(t, node.index + 1) \in Words
             THEN Parsed([node.tree EXCEPT !.exception = peek(t, node.index + 1)], node.index + 2)
             ELSE Failed

Operands(parse, t, i, operand, operator, operands) ==
    LET node == parse[operand, i]
    IN  IF ~node.ok THEN Failed
        ELSE IF peek(t, node.index) # operator THEN Parsed(<<node.tree>>, node.index)
        ELSE LET others == parse[operands, node.index + 1]
             IN  IF others.ok THEN Parsed(<<node.tree>> \o others.tree, others.index) ELSE Failed

(* Operators associate to the left. *)
Join(operator, list) ==
    IF ~list.ok THEN Failed
    ELSE Parsed(FoldLeft(LAMBDA left, right : Binary(operator, left, right),
                         Head(list.tree), Tail(list.tree)), list.index)

parseAnd(parse, t, i) == Join("AND", parse["ands", i])

parseOr(parse, t, i) == Join("OR", parse["ors", i])

Rules == {"primary", "with", "ands", "and", "ors", "or"}

parseLicenseExpressionSyntax(e) ==
    LET lexed == tokenizeLicenseExpression(e)
        t == lexed.tokens
        parse[rule \in Rules, i \in 1 .. Len(t) + 2] ==
            CASE rule = "primary" -> parsePrimary(parse, t, i)
              [] rule = "with" -> parseWith(parse, t, i)
              [] rule = "ands" -> Operands(parse, t, i, "with", "AND", "ands")
              [] rule = "and" -> parseAnd(parse, t, i)
              [] rule = "ors" -> Operands(parse, t, i, "and", "OR", "ors")
              [] rule = "or" -> parseOr(parse, t, i)
        result == parse["or", 1]
    IN  IF lexed.ok /\ result.ok /\ result.index = Len(e) + 1 THEN result ELSE Failed

RECURSIVE validateSpdxLicenseExpressionSyntax(_)
validateSpdxLicenseExpressionSyntax(node) ==
    IF node.kind = "license"
    THEN node.identifier \in SPDX_LICENSE_IDENTIFIER_CATALOGUE
         /\ node.exception \in SPDX_EXCEPTION_IDENTIFIER_CATALOGUE \cup {"none"}
    ELSE validateSpdxLicenseExpressionSyntax(node.left) /\ validateSpdxLicenseExpressionSyntax(node.right)

(***************************************************************************)
(* The policy.                                                             *)
(***************************************************************************)
identifierDecision(identifier) ==
    IF identifier \in LICENSE_POLICY_ALLOWLIST THEN "allowed" ELSE "needs-user-decision"

RECURSIVE evaluateExpressionTree(_)
evaluateExpressionTree_AnyBranch(node) ==
    IF node.kind = "license"
    THEN IF node.exception = "none" THEN identifierDecision(node.identifier) ELSE "needs-user-decision"
    ELSE IF \/ node.operator = "OR" /\ "allowed" \in {evaluateExpressionTree(node.left), evaluateExpressionTree(node.right)}
            \/ {evaluateExpressionTree(node.left), evaluateExpressionTree(node.right)} = {"allowed"}
         THEN "allowed" ELSE "needs-user-decision"
evaluateExpressionTree(node) ==
    IF node.kind = "license"
    THEN IF node.exception = "none" THEN identifierDecision(node.identifier) ELSE "needs-user-decision"
    ELSE IF {evaluateExpressionTree(node.left), evaluateExpressionTree(node.right)} = {"allowed"}
         THEN "allowed" ELSE "needs-user-decision"

evaluateLicenseExpression(result) ==
    IF result.ok THEN evaluateExpressionTree(result.tree) ELSE "invalid-metadata"

(* The licence expression of a package: the pinned normalisation of
   curve25519-dalek-derive, the declaration when it is an SPDX expression,
   and none (null) otherwise.                                               *)
CURVE25519_DALEK_DERIVE_NORMALIZATION ==
    [raw |-> <<"MIT", Bad, "Apache-2.0">>, normalized |-> <<"MIT", "OR", "Apache-2.0">>]

Null == << >>

cargoLicenseMetadata(declared, pinned) ==
    IF pinned /\ declared = CURVE25519_DALEK_DERIVE_NORMALIZATION.raw
    THEN CURVE25519_DALEK_DERIVE_NORMALIZATION.normalized
    ELSE LET result == parseLicenseExpressionSyntax(declared)
         IN  IF result.ok /\ validateSpdxLicenseExpressionSyntax(result.tree) THEN declared ELSE Null

(* The verdict on a component: a declaration without a licence expression is
   judged as it stands but never allowed.                                   *)
evaluateInventory(declared, license_expression) ==
    IF declared = Null THEN "missing-declared-metadata"
    ELSE IF license_expression # Null THEN evaluateLicenseExpression(parseLicenseExpressionSyntax(license_expression))
    ELSE LET status == evaluateLicenseExpression(parseLicenseExpressionSyntax(declared))
         IN  IF status = "allowed" THEN "invalid-metadata" ELSE status

(***************************************************************************)
(* Declared expressions.  Nothing follows Bad, where the tokenizer stops,  *)
(* nor a lexeme that cannot follow the one before it, where the parser has *)
(* stopped already: whatever comes then, the expression is refused.        *)
(* The pinned package must have its name, version, repository and licence  *)
(* files; without them its declaration is one with Bad in it.              *)
(***************************************************************************)
Judge(declared, pinned) ==
    LET license_expression == cargoLicenseMetadata(declared, pinned)
    IN  /\ expression' = IF license_expression # Null THEN license_expression ELSE declared
        /\ parsed' = parseLicenseExpressionSyntax(expression')
        /\ verdict' = evaluateInventory(declared, license_expression)

StartsOperand(x) == x \in {"("} \cup Words
EndsOperand(x) == x \in {")"} \cup Words

WellJoined(e) ==
    /\ \A i \in DOMAIN e : StartsOperand(e[i]) <=> (i = 1 \/ ~EndsOperand(e[i - 1]))
    /\ \A i \in DOMAIN e : e[i] # Bad

Init == expression = Null /\ parsed = Failed /\ verdict = "missing-declared-metadata"

Declare ==
    /\ Len(expression) < MaxLexemes
    /\ WellJoined(expression)
    /\ \E x \in Lexemes \cup {Bad} : Judge(Append(expression, x), FALSE)

DeclarePinned ==
    /\ expression = Null
    /\ Judge(CURVE25519_DALEK_DERIVE_NORMALIZATION.raw, TRUE)

Next == Declare \/ DeclarePinned

Spec == Init /\ [][Next]_vars

(***************************************************************************)
(* Properties.                                                             *)
(***************************************************************************)
(* The derivations of the lexemes from i to j in the grammar of SPDX, with AND
   binding tighter than OR, both to the left, and WITH after one licence,
   which here may stand in parentheses.                                     *)
Derivations(e) ==
    LET trees[rule \in Rules, i \in DOMAIN e, j \in DOMAIN e] ==
            CASE rule = "primary" ->
                    {License(w, "none") : w \in IF i = j THEN {e[i]} \cap Words ELSE {}}
                    \cup (IF j - i >= 2 /\ e[i] = "(" /\ e[j] = ")" THEN trees["or", i + 1, j - 1] ELSE {})
              [] rule = "with" ->
                    trees["primary", i, j]
                    \cup (IF j - i >= 2 /\ e[j - 1] = "WITH" /\ e[j] \in Words
                          THEN {[l EXCEPT !.exception = e[j]] :
                                   l \in {x \in trees["primary", i, j - 2] : x.kind = "license"}}
                          ELSE {})
              [] rule = "and" ->
                    trees["with", i, j]
                    \cup UNION {{Binary("AND", l, r) : l \in trees["and", i, k - 1], r \in trees["with", k + 1, j]} :
                                   k \in {n \in i + 1 .. j - 1 : e[n] = "AND"}}
              [] rule = "or" ->
                    trees["and", i, j]
                    \cup UNION {{Binary("OR", l, r) : l \in trees["or", i, k - 1], r \in trees["and", k + 1, j]} :
                                   k \in {n \in i + 1 .. j - 1 : e[n] = "OR"}}
    IN  trees["or", 1, Len(e)]

(* The recursive descent of parseLicenseExpressionSyntax accepts exactly the
   expressions of the grammar, and its tree is their only derivation.       *)
ParserIsTheGrammar ==
    expression # << >> =>
        Derivations(expression) = IF parsed.ok THEN {parsed.tree} ELSE {}

Identifiers ==
    {expression[i] : i \in {n \in DOMAIN expression :
        expression[n] \in Words /\ (n > 1 => expression[n - 1] # "WITH")}}

(* Closed world: a component is allowed only when every identifier written
   anywhere in its declaration is on the allowlist and no exception is, on
   whatever side of an OR and in whatever parentheses; and then it is
   (evaluateInventory after parsing, normalising and evaluating the tree).  *)
ClosedWorld ==
    (verdict = "allowed") <=>
        /\ parsed.ok
        /\ Identifiers \subseteq LICENSE_POLICY_ALLOWLIST
        /\ \A i \in DOMAIN expression : expression[i] # "WITH"
=============================================================================
