SPECIFICATION Spec
CONSTANTS
    nothing = nothing
    dot = dot
    dotdot = dotdot
    slashed = slashed
    percent = percent
    asked = asked
    before = before
    spaced = spaced
    api = api
    v2 = v2
    other = other
    Nothing = nothing
    Dot = dot
    DotDot = dotdot
    Slashed = slashed
    Percent = percent
    Asked = asked
    Before = before
    Spaced = spaced
    Texts <- SomeTexts
    Strict = FALSE
    ClaimPaths <- NestedPrefixes
    RowPaths <- SomeRows
    RequestPaths <- Written
    OwnPath <- ApiAddress
    Methods <- GetPost
    Acts <- ListGet
    Conditions <- SomeConditions
    Unset = "any"
    Tools = {"t1"}
    RpcApis = "rpcApis"
    MaxDeclared = 1
INVARIANTS
    RequestsFollowClaims
    RowsFollowDeclarations
