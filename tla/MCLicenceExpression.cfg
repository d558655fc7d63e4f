SPECIFICATION Spec
CONSTANTS
    LICENSE_POLICY_ALLOWLIST = {"MIT", "Apache-2.0"}
    SPDX_LICENSE_IDENTIFIER_CATALOGUE = {"MIT", "Apache-2.0", "LGPL-2.1-or-later"}
    SPDX_EXCEPTION_IDENTIFIER_CATALOGUE = {"LLVM-exception"}
    Written = {"MIT", "LGPL-2.1-or-later", "LLVM-exception"}
    MaxLexemes = 8
INVARIANTS
    ParserIsTheGrammar
    ClosedWorld
CHECK_DEADLOCK FALSE
