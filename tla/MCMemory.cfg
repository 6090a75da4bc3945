CONSTANTS
    keyword = keyword  rewording = rewording
    old = old  new = new  stub = stub  Empty = Empty  Nothing = Nothing  Torn = Torn
    Asked = {rewording}
    Content = {old, new}
    Text = {old, new, stub}
    Part <- MCPart
    BuiltIn = {keyword}
    IndexOf <- MCIndexOf
    Css <- MCCss
    Threshold <- MCThreshold
    PromoteAt = 2
    MaxBoots = 2
SPECIFICATION Spec
INVARIANTS
    StalenessEndsAtRestart
    ReturnedStoresSurvive
CHECK_DEADLOCK FALSE
