\* One node: samples that take 0 ms or wrap, a test URL, checks of all shapes.
SPECIFICATION TestSpec
CONSTANTS
    Worker = {w1}
    Tries = 1
    Samples = 3
    Elapsed = {0, 2, 65537}
    Url = {u1}
    Check = {"gpt_web", "gpt_ios", "unlisted"}
    Country = {"us", "cn"}
    GPTCountry = {"us"}
INVARIANTS
    LatencySound
    NothingGivenUp
